---------------------------- MODULE Spec2Model ----------------------------
(***************************************************************************)
(* Cross-chain tracing pipeline of agoric-dev-mcp: the four step handlers  *)
(* (trace-axelar-gmp-step, trace-agoric-funding-ack-step,                  *)
(* trace-cctp-noble-step, trace-final-evm-step), the shared retrying HTTP  *)
(* client, the chain registry and the address helpers.                     *)
(*                                                                         *)
(* Representation of JavaScript values:                                    *)
(*   - a string that the code inspects (addresses, chain names, base64     *)
(*     blobs, attribute values, amounts) is a sequence of one-character    *)
(*     strings, so that trim/toLowerCase/replace/atob are computed;        *)
(*   - a string that the code only copies (hashes, ids, contract           *)
(*     addresses of the registry) is an opaque TLA+ string;                *)
(*   - Undefined is the opaque value of an absent field, NullStr the       *)
(*     null of a string-valued expression.                                 *)
(***************************************************************************)
EXTENDS Integers, Sequences, FiniteSets, TLC

VARIABLES
    step,       \* which handler this invocation runs, or a pure-function harness
    pc,         \* position of the invocation
    params,     \* the parameter object of the invocation
    env,        \* credentials present in the environment
    mr,         \* the makeRequest call in progress (retry loop state)
    response,   \* what the last makeRequest call returned to the handler
    requests,   \* the logical outbound requests issued so far, in order
    loc,        \* the handler's local variables across its suspension points
    result,     \* the handler's return value
    fnIn,       \* pure-function harness: the input drawn
    fnOut       \* pure-function harness: the values computed so far

vars == <<step, pc, params, env, mr, response, requests, loc, result, fnIn, fnOut>>

(***************************************************************************)
(* Bounds of the model.                                                    *)
(***************************************************************************)
MaxStrLen == 4
MaxBytes == 22
MaxTxs == 2
MaxLogs == 2

(***************************************************************************)
(* JavaScript values.                                                      *)
(***************************************************************************)
Undefined == "<undefined>"
NullStr == <<"<null>">>
NoValue == "<none>"

\* String(v) of a string-or-null value: null prints as the text "null".
JSString(s) == IF s = NullStr THEN <<"n", "u", "l", "l">> ELSE s

UpperLetters ==
    <<"A", "B", "C", "D", "E", "F", "G", "H", "I", "J", "K", "L", "M",
      "N", "O", "P", "Q", "R", "S", "T", "U", "V", "W", "X", "Y", "Z">>
LowerLetters ==
    <<"a", "b", "c", "d", "e", "f", "g", "h", "i", "j", "k", "l", "m",
      "n", "o", "p", "q", "r", "s", "t", "u", "v", "w", "x", "y", "z">>
Digits == <<"0", "1", "2", "3", "4", "5", "6", "7", "8", "9">>

IndexIn(seq, c) ==
    IF \E i \in 1..Len(seq) : seq[i] = c
    THEN CHOOSE i \in 1..Len(seq) : seq[i] = c
    ELSE 0

LowerOf == [c \in {UpperLetters[i] : i \in 1..26} |-> LowerLetters[IndexIn(UpperLetters, c)]]
UpperOf == [c \in {LowerLetters[i] : i \in 1..26} |-> UpperLetters[IndexIn(LowerLetters, c)]]

ToLowerChar(c) == IF c \in DOMAIN LowerOf THEN LowerOf[c] ELSE c

\* Two lowercase letters outside ASCII whose uppercase form is an ASCII
\* letter: U+0131 (dotless i) and U+017F (long s).  Each is one character.
DotlessI == "U+0131"
LongS == "U+017F"

ToUpperChar(c) ==
    CASE c \in DOMAIN UpperOf -> UpperOf[c]
      [] c = DotlessI -> "I"
      [] c = LongS -> "S"
      [] OTHER -> c

\* String.prototype.toLowerCase / toUpperCase
toLowerCase(s) == [i \in 1..Len(s) |-> ToLowerChar(s[i])]
toUpperCase(s) == [i \in 1..Len(s) |-> ToUpperChar(s[i])]

\* Every sequence over S of length at most n.
RECURSIVE SeqsUpTo(_, _)
SeqsUpTo(S, n) ==
    IF n = 0 THEN {<<>>}
    ELSE LET shorter == SeqsUpTo(S, n - 1)
         IN shorter \cup {Append(q, c) : q \in {r \in shorter : Len(r) = n - 1}, c \in S}

IsSpace(c) == c \in {" ", "\t", "\n"}

\* String.prototype.trim
RECURSIVE TrimLeft(_)
TrimLeft(s) ==
    IF s # <<>> /\ IsSpace(Head(s)) THEN TrimLeft(Tail(s)) ELSE s
RECURSIVE TrimRight(_)
TrimRight(s) ==
    IF s # <<>> /\ IsSpace(s[Len(s)])
    THEN TrimRight(SubSeq(s, 1, Len(s) - 1))
    ELSE s
trim(s) == TrimRight(TrimLeft(s))

\* s.replace(/^0x/, ''): one leading "0x" is removed, once.
Strip0x(s) ==
    IF Len(s) >= 2 /\ s[1] = "0" /\ s[2] = "x" THEN SubSeq(s, 3, Len(s)) ELSE s

\* (s || '').trim().toLowerCase().replace(/^0x/, '')
normalizeAddress(s) ==
    LET v == IF s = NullStr THEN <<>> ELSE s IN Strip0x(toLowerCase(trim(v)))

\* (chain || '').toLowerCase()
canonicalizeChain(chain) == toLowerCase(chain)

(***************************************************************************)
(* Chain registry.                                                         *)
(***************************************************************************)
NoChainInfo ==
    [CHAIN_ID |-> 0, EXPLORER_URL |-> Undefined,
     FACTORY_CONTRACTS |-> <<>>, CCTP_DOMAIN |-> NullStr]

EVM_CHAIN_INFO(key) ==
    CASE key = <<"A", "V", "A", "L", "A", "N", "C", "H", "E">> ->
            [CHAIN_ID |-> 43114, EXPLORER_URL |-> "https://snowscan.xyz/tx/",
             FACTORY_CONTRACTS |->
                <<"0x647Ead1a35dbC2b0160Cbe6e565f25C4915a125F",
                  "0x13cA288486f2bb6B3619c5fd6A2917Ec98a41E7f">>,
             CCTP_DOMAIN |-> <<"1">>]
      [] key = <<"A", "R", "B", "I", "T", "R", "U", "M">> ->
            [CHAIN_ID |-> 42161, EXPLORER_URL |-> "https://arbiscan.io/tx/",
             FACTORY_CONTRACTS |->
                <<"0x647Ead1a35dbC2b0160Cbe6e565f25C4915a125F",
                  "0x51e589D94b51d01B75442AE1504cD8c50d6127C9">>,
             CCTP_DOMAIN |-> <<"3">>]
      [] key = <<"E", "T", "H", "E", "R", "E", "U", "M">> ->
            [CHAIN_ID |-> 1, EXPLORER_URL |-> "https://etherscan.io/tx/",
             FACTORY_CONTRACTS |->
                <<"0x647Ead1a35dbC2b0160Cbe6e565f25C4915a125F",
                  "0x3bF3056835f7C25b1f71aff99B734Ad07d644577",
                  "0x6ca3e8BFe9196A463136cB2442672e46BBe00BCc">>,
             CCTP_DOMAIN |-> <<"0">>]
      [] key = <<"O", "P", "T", "I", "M", "I", "S", "M">> ->
            [CHAIN_ID |-> 10, EXPLORER_URL |-> "https://optimistic.etherscan.io/tx/",
             FACTORY_CONTRACTS |->
                <<"0x6ca3e8BFe9196A463136cB2442672e46BBe00BCc">>,
             CCTP_DOMAIN |-> <<"2">>]
      [] key = <<"B", "A", "S", "E">> ->
            [CHAIN_ID |-> 8453, EXPLORER_URL |-> "https://basescan.org/tx/",
             FACTORY_CONTRACTS |->
                <<"0x724fB9Fd9876d12Da33223C84E7Abf46fFc159C1">>,
             CCTP_DOMAIN |-> <<"6">>]
      [] OTHER -> NoChainInfo

\* EVM_CHAIN_INFO[(chain || '').toUpperCase()] || null
getChainInfo(chain) == EVM_CHAIN_INFO(toUpperCase(chain))

(***************************************************************************)
(* atob: the forgiving-base64 decode of the platform.  A result is         *)
(* [ok |-> TRUE, bytes |-> ...] or, where atob throws, [ok |-> FALSE].     *)
(***************************************************************************)
B64Alphabet == UpperLetters \o LowerLetters \o Digits \o <<"+", "/">>

B64Table == [c \in {B64Alphabet[i] : i \in 1..64} |-> IndexIn(B64Alphabet, c) - 1]

\* The sextet a character stands for, -1 for a character outside the alphabet.
B64Val(c) == IF c \in DOMAIN B64Table THEN B64Table[c] ELSE -1

RemoveWhitespace(s) == SelectSeq(s, LAMBDA c : ~IsSpace(c))

StripPadding(s) ==
    IF Len(s) % 4 # 0 \/ Len(s) = 0 THEN s
    ELSE IF s[Len(s)] = "=" /\ s[Len(s) - 1] = "="
         THEN SubSeq(s, 1, Len(s) - 2)
    ELSE IF s[Len(s)] = "=" THEN SubSeq(s, 1, Len(s) - 1)
    ELSE s

\* The bytes of a padding-free run of sextets (leftover bits are discarded).
RECURSIVE SextetsToBytes(_)
SextetsToBytes(v) ==
    IF Len(v) >= 4
    THEN LET n == ((v[1] * 64 + v[2]) * 64 + v[3]) * 64 + v[4]
         IN <<n \div 65536, (n \div 256) % 256, n % 256>>
              \o SextetsToBytes(SubSeq(v, 5, Len(v)))
    ELSE IF Len(v) = 3
    THEN LET n == (v[1] * 64 + v[2]) * 64 + v[3]
         IN <<n \div 1024, (n \div 4) % 256>>
    ELSE IF Len(v) = 2
    THEN <<(v[1] * 64 + v[2]) \div 16>>
    ELSE <<>>

atob(s) ==
    LET d == StripPadding(RemoveWhitespace(s))
    IN IF Len(d) % 4 = 1 \/ \E i \in 1..Len(d) : B64Val(d[i]) < 0
       THEN [ok |-> FALSE, bytes |-> <<>>]
       ELSE [ok |-> TRUE,
             bytes |-> SextetsToBytes([i \in 1..Len(d) |-> B64Val(d[i])])]

HexDigits ==
    <<"0", "1", "2", "3", "4", "5", "6", "7", "8", "9", "a", "b", "c", "d", "e", "f">>

\* b.toString(16).padStart(2, '0')
ByteToHex(b) == <<HexDigits[(b \div 16) + 1], HexDigits[(b % 16) + 1]>>

RECURSIVE HexJoin(_)
HexJoin(bytes) ==
    IF bytes = <<>> THEN <<>> ELSE ByteToHex(Head(bytes)) \o HexJoin(Tail(bytes))

EvmAddressBytes == 20

\* bytes.slice(-20)
LastBytes(bytes) == SubSeq(bytes, Len(bytes) - EvmAddressBytes + 1, Len(bytes))

decodeMintRecipientFromFront(base64Str) ==
    LET r == atob(base64Str)
    IN IF ~r.ok THEN NullStr
       ELSE IF Len(r.bytes) < EvmAddressBytes THEN NullStr
       ELSE <<"0", "x">> \o HexJoin(SubSeq(r.bytes, 1, EvmAddressBytes))

\* try { atob; length check; slice(-20); hex } catch { return null }
decodeMintRecipient(base64Str) ==
    LET r == atob(base64Str)
    IN IF ~r.ok THEN NullStr
       ELSE IF Len(r.bytes) < EvmAddressBytes THEN NullStr
       ELSE <<"0", "x">> \o HexJoin(LastBytes(r.bytes))

(***************************************************************************)
(* Provider-side data: how a recipient blob is produced (standard base64   *)
(* with padding), used to build the payloads the decoder is run on.        *)
(***************************************************************************)
RECURSIVE Base64Encode(_)
Base64Encode(bytes) ==
    IF Len(bytes) >= 3
    THEN LET n == (bytes[1] * 256 + bytes[2]) * 256 + bytes[3]
         IN <<B64Alphabet[(n \div 262144) + 1], B64Alphabet[((n \div 4096) % 64) + 1],
              B64Alphabet[((n \div 64) % 64) + 1], B64Alphabet[(n % 64) + 1]>>
              \o Base64Encode(SubSeq(bytes, 4, Len(bytes)))
    ELSE IF Len(bytes) = 2
    THEN LET n == (bytes[1] * 256 + bytes[2]) * 4
         IN <<B64Alphabet[(n \div 4096) + 1], B64Alphabet[((n \div 64) % 64) + 1],
              B64Alphabet[(n % 64) + 1], "=">>
    ELSE IF Len(bytes) = 1
    THEN LET n == bytes[1] * 16
         IN <<B64Alphabet[(n \div 64) + 1], B64Alphabet[(n % 64) + 1], "=", "=">>
    ELSE <<>>

(***************************************************************************)
(* ResponseFormatter: both forms wrap a text in the same envelope; the     *)
(* model keeps the data that is serialised, and which form was used.       *)
(***************************************************************************)
\* A catch block that lets the error escape instead of formatting it.
Rethrow(message) == [kind |-> "thrown", message |-> message]

\* ResponseFormatter.error / ResponseFormatter.success: both return the
\* envelope {content: [{type: 'text', text}]}; kind tells which built it.
FormatError(message) == [kind |-> "error", message |-> message]
FormatSuccess(data) == [kind |-> "success", data |-> data]
NoResult == [kind |-> "none"]

\* String(v) of a copied (opaque) value.
StringOf(v) == IF v = Undefined THEN "undefined" ELSE v

\* Timestamps of provider records: a positive number is a valid time,
\* TimeAbsent an absent field, TimeInvalid a value Date cannot parse.
TimeAbsent == 0
TimeInvalid == -1

(***************************************************************************)
(* makeRequest: the retry loop of the shared HTTP client.                  *)
(***************************************************************************)
DefaultRetries == 3
DefaultRetryDelay == 1000

IdleMr ==
    [active |-> FALSE, retries |-> 0, attempt |-> 0, currentRetryDelay |-> 0,
     fetches |-> 0, sleeps |-> <<>>, lastError |-> "none"]

\* The state of a call of makeRequest(url, options, accept, toJson, retries).
StartMr(retries) ==
    [active |-> TRUE, retries |-> retries, attempt |-> 0,
     currentRetryDelay |-> DefaultRetryDelay,
     fetches |-> 0, sleeps |-> <<>>, lastError |-> "none"]

NullResponse == [isNull |-> TRUE]

FailureKinds == {"network", "status", "json"}

\* The last logical request, marked as having failed on every attempt.
MarkExhausted(reqs) ==
    [reqs EXCEPT ![Len(reqs)] = [@ EXCEPT !.exhausted = TRUE]]


(***************************************************************************)
(* Step 3: extractCctpDataFromLogs and the scan of cctpNobleTxHandler.     *)
(* A log is [events |-> <<event>>], an event [type, attributes], an        *)
(* attribute [key, value]; a message [type, amount].                       *)
(***************************************************************************)
DepositForBurn == "circle.cctp.v1.DepositForBurn"
MsgBurn == "/circle.fiattokenfactory.v1.MsgBurn"
NoEvent == [type |-> "<no event>", attributes |-> <<>>]
NoAmount == [amount |-> Undefined, denom |-> Undefined]
\* let burnAmount: string | null = null; let burnDenom: string | null = null
Null == "<null>"
NoBurn == [amount |-> Null, denom |-> Null]

\* logs.flatMap((l) => l?.events ?? [])
RECURSIVE FlatEvents(_)
FlatEvents(logs) ==
    IF logs = <<>> THEN <<>> ELSE Head(logs).events \o FlatEvents(Tail(logs))

FindEventOfAnyType(events, type) ==
    IF events = <<>> THEN NoEvent ELSE events[1]

\* events.find((e) => e?.type === type) ?? null
FindEvent(events, type) ==
    LET hits == {i \in 1..Len(events) : events[i].type = type}
    IN IF hits = {} THEN NoEvent
       ELSE events[CHOOSE i \in hits : \A j \in hits : i <= j]

\* s.replace(/^"+|"+$/g, '')
RECURSIVE StripLeadingQuotes(_)
StripLeadingQuotes(s) ==
    IF s # <<>> /\ Head(s) = "\"" THEN StripLeadingQuotes(Tail(s)) ELSE s
RECURSIVE StripTrailingQuotes(_)
StripTrailingQuotes(s) ==
    IF s # <<>> /\ s[Len(s)] = "\""
    THEN StripTrailingQuotes(SubSeq(s, 1, Len(s) - 1))
    ELSE s
StripQuotes(s) == StripTrailingQuotes(StripLeadingQuotes(s))

\* attrs[key] ?? null, attrs being the reduce over the event's attributes:
\* a later attribute of the same key overwrites an earlier one, and an
\* attribute whose value is null or undefined is skipped.
AttrValue(attributes, key) ==
    LET hits == {i \in 1..Len(attributes) :
                    attributes[i].key = key /\ attributes[i].value # NullStr}
    IN IF hits = {} THEN NullStr
       ELSE StripQuotes(attributes[CHOOSE i \in hits : \A j \in hits : i >= j].value)

extractCctpDataFromLogs(logs) ==
    LET evt == FindEvent(FlatEvents(logs), DepositForBurn)
    IN IF evt = NoEvent
       THEN [mintRecipient |-> NullStr, destinationDomain |-> NullStr]
       ELSE LET base64Recipient == AttrValue(evt.attributes, "mint_recipient")
                destinationDomain == AttrValue(evt.attributes, "destination_domain")
            IN [mintRecipient |->
                    IF base64Recipient # NullStr /\ base64Recipient # <<>>
                    THEN decodeMintRecipient(base64Recipient)
                    ELSE NullStr,
                destinationDomain |-> destinationDomain]

\* String(destinationDomain) === String(expectedDomain)
sameDomain(cctp, expectedDomain) ==
    JSString(cctp.destinationDomain) = JSString(expectedDomain)

\* normalizeAddress(mintRecipient || '') === normalizeAddress(destinationEvmAddress)
sameAddress(cctp, destinationEvmAddress) ==
    normalizeAddress(cctp.mintRecipient) = normalizeAddress(destinationEvmAddress)

\* const { mintRecipient, destinationDomain } = extractCctpDataFromLogs(tx?.logs || []);
\* if (sameDomain && sameAddress)
Step3Match(tx, expectedDomain, destinationEvmAddress) ==
    LET cctp == extractCctpDataFromLogs(tx.logs)
    IN sameDomain(cctp, expectedDomain) /\ sameAddress(cctp, destinationEvmAddress)

\* The amount and denom of the first message of type MsgBurn that carries an
\* amount, or the nulls the two variables start with.
BurnOf(messages) ==
    LET hits == {i \in 1..Len(messages) :
                    messages[i].type = MsgBurn /\ messages[i].amount # NoAmount}
    IN IF hits = {} THEN NoBurn
       ELSE messages[CHOOSE i \in hits : \A j \in hits : i <= j].amount

\* new Date(t).toISOString() throws a RangeError for an invalid date.
DateThrows(t) == t = TimeAbsent \/ t = TimeInvalid

\* The body of the loop for the transaction that matches: the success
\* result, or the error of the catch block when building it throws.
Step3Found(tx, destinationEvmAddress) ==
    LET txHash == tx.txhash
        txUrl == <<"https://www.mintscan.io/noble/txs/", StringOf(txHash)>>
        burn == BurnOf(tx.messages)
        destinationDomain == extractCctpDataFromLogs(tx.logs).destinationDomain
        items ==
            <<[label |-> "Noble CCTP Tx", value |-> txHash, href |-> txUrl],
              [label |-> "Destination EVM", value |-> destinationEvmAddress],
              [label |-> "Destination Domain", value |-> JSString(destinationDomain)]>>
            \o (IF burn.amount \notin {Null, Undefined, ""}
                   /\ burn.denom \notin {Null, Undefined, ""}
                THEN <<[label |-> "Amount", value |-> <<burn.amount, burn.denom>>]>>
                ELSE <<>>)
    IN IF DateThrows(tx.timestamp)
       THEN FormatError("Error tracing CCTP Noble step")
       ELSE FormatSuccess(
              [title |-> "CCTP on Noble", found |-> TRUE,
               txHash |-> StringOf(txHash),
               burnAmount |-> burn.amount, burnDenom |-> burn.denom,
               transaction |-> [hash |-> StringOf(txHash), height |-> tx.height,
                                code |-> tx.code, timestamp |-> tx.timestamp,
                                explorerUrl |-> txUrl],
               items |-> items, message |-> Undefined])

Step3NotFound ==
    FormatSuccess(
        [title |-> "CCTP on Noble", found |-> FALSE, items |-> <<>>,
         message |-> "No matching CCTP burn transactions found"])

\* for (const tx of transactions) { if (match) return ...; }  return not found
RECURSIVE Step3Scan(_, _, _)
Step3Scan(transactions, expectedDomain, destinationEvmAddress) ==
    IF transactions = <<>> THEN Step3NotFound
    ELSE IF Step3Match(Head(transactions), expectedDomain, destinationEvmAddress)
    THEN Step3Found(Head(transactions), destinationEvmAddress)
    ELSE Step3Scan(Tail(transactions), expectedDomain, destinationEvmAddress)

\* response?.data?.transactions || response?.transactions || []
\* (a null response, and a payload without the field, give the empty list)
TransactionsOf(resp) ==
    IF resp = NullResponse THEN <<>>
    ELSE IF resp.shape \in {"data.transactions", "transactions"} THEN resp.transactions
    ELSE <<>>

\* for...of over a value that is not iterable throws a TypeError.
NotIterable(resp) == resp # NullResponse /\ resp.shape = "notIterable"


(***************************************************************************)
(* Provider data for Step 3: the transactions a Mintscan page may hold.    *)
(***************************************************************************)
TargetBytes == [i \in 1..20 |-> (171 + 13 * i) % 256]
OtherBytes == [i \in 1..20 |-> (16 + 5 * i) % 256]
ZeroPad == [i \in 1..12 |-> 0]

TargetAddr == <<"0", "x">> \o HexJoin(TargetBytes)
TargetAddrUpper == <<"0", "x">> \o toUpperCase(HexJoin(TargetBytes))

Quote(s) == <<"\"">> \o s \o <<"\"">>

BurnEvent(type, recipient, domain) ==
    [type |-> type,
     attributes |-> <<[key |-> "amount", value |-> <<"1", "0", "0">>],
                      [key |-> "mint_recipient", value |-> recipient],
                      [key |-> "destination_domain", value |-> domain]>>]

NobleTx(hash, time, event, messages) ==
    [txhash |-> hash, height |-> 10, code |-> 0, timestamp |-> time,
     logs |-> <<[events |-> <<[type |-> "message",
                              attributes |-> <<[key |-> "action", value |-> <<"b">>]>>]>>],
               [events |-> <<event>>]>>,
     messages |-> messages]

BurnMessages ==
    <<[type |-> "/cosmos.bank.v1beta1.MsgSend",
       amount |-> [amount |-> "9", denom |-> "uatom"]],
      [type |-> MsgBurn, amount |-> NoAmount],
      [type |-> MsgBurn, amount |-> [amount |-> "100", denom |-> "uusdc"]],
      [type |-> MsgBurn, amount |-> [amount |-> "7", denom |-> "uusdc"]]>>

\* The transactions a page is drawn from.
NobleTxs ==
    {NobleTx("NOBLE_TX_1", 1700,
             BurnEvent(DepositForBurn, Quote(Base64Encode(ZeroPad \o TargetBytes)),
                       Quote(<<"1">>)),
             BurnMessages),
     NobleTx("NOBLE_TX_2", 1800,
             BurnEvent(DepositForBurn, Base64Encode(ZeroPad \o TargetBytes), <<"1">>),
             <<[type |-> MsgBurn, amount |-> NoAmount]>>),
     NobleTx("NOBLE_TX_3", 1700,
             BurnEvent(DepositForBurn, Base64Encode(ZeroPad \o TargetBytes), <<"6">>),
             <<[type |-> MsgBurn, amount |-> [amount |-> "5", denom |-> Undefined]],
               [type |-> MsgBurn, amount |-> [amount |-> "100", denom |-> "uusdc"]]>>),
     NobleTx("NOBLE_TX_4", 1700,
             BurnEvent(DepositForBurn, Base64Encode(ZeroPad \o OtherBytes), <<"1">>),
             BurnMessages),
     NobleTx("NOBLE_TX_5", 1700,
             BurnEvent(DepositForBurn, <<"!", "!">>, <<"1">>), BurnMessages),
     NobleTx("NOBLE_TX_6", 1700,
             BurnEvent(DepositForBurn, Base64Encode(Tail(TargetBytes)), <<"1">>),
             BurnMessages),
     NobleTx("NOBLE_TX_7", 1700,
             BurnEvent("burn", Base64Encode(ZeroPad \o TargetBytes), <<"1">>),
             BurnMessages),
     NobleTx("NOBLE_TX_8", TimeAbsent,
             BurnEvent(DepositForBurn, Base64Encode(ZeroPad \o TargetBytes), <<"1">>),
             BurnMessages),
     NobleTx(Undefined, 1700,
             BurnEvent(DepositForBurn, Base64Encode(ZeroPad \o TargetBytes), <<"1">>),
             BurnMessages)}

\* The JSON bodies an account-transactions request may return.
MintscanPayloads(catalog) ==
    {[shape |-> "data.transactions", transactions |-> txs] :
        txs \in SeqsUpTo(catalog, MaxTxs)}
    \cup {[shape |-> "transactions", transactions |-> txs] : txs \in SeqsUpTo(catalog, 1)}
    \cup {[shape |-> "none", transactions |-> <<>>],
          [shape |-> "notIterable", transactions |-> <<>>]}


(***************************************************************************)
(* Step 1: axelarGmpTxHandler.  A GMP record is [call, approved,           *)
(* timestamp]; an absent call or approved part is NoCall / NoApproved.      *)
(***************************************************************************)
NoCall == [id |-> Undefined, event |-> Undefined, transactionHash |-> Undefined,
           timestamp |-> TimeAbsent]
NoApproved == [transactionHash |-> Undefined]

\* Array.isArray(data?.data) && data.data.length > 0
HasGmpData(resp) ==
    resp # NullResponse /\ resp.shape = "data" /\ Len(resp.data) > 0

Step1NotFound ==
    FormatSuccess(
        [step |-> "step1", title |-> "Axelar GMP (make account)", found |-> FALSE,
         message |-> "No GMP transactions found", items |-> <<>>])

\* The result built from gmpData.data[0].
Step1Found(first, chainInfo) ==
    LET gmpId == first.call.id
        event == first.call.event
        destTxHash == first.approved.transactionHash
        timestamp == IF first.call.timestamp # TimeAbsent
                     THEN first.call.timestamp ELSE first.timestamp
        sourceTxHash == first.call.transactionHash
        items ==
            (IF destTxHash # Undefined /\ chainInfo.EXPLORER_URL # Undefined
             THEN <<[label |-> "Destination Tx", value |-> destTxHash,
                     href |-> <<chainInfo.EXPLORER_URL, destTxHash>>]>>
             ELSE <<>>)
            \o (IF sourceTxHash # Undefined
                THEN <<[label |-> "Source Tx", value |-> sourceTxHash,
                        href |-> <<"https://axelarscan.io/tx/", sourceTxHash>>]>>
                ELSE <<>>)
            \o (IF gmpId # Undefined
                THEN <<[label |-> "Axelar GMP ID", value |-> gmpId,
                        href |-> <<"https://axelarscan.io/gmp/", gmpId>>]>>
                ELSE <<>>)
            \o (IF event # Undefined
                THEN <<[label |-> "Event", value |-> event]>>
                ELSE <<>>)
    IN IF timestamp # TimeAbsent /\ DateThrows(timestamp)
       THEN FormatError("Error tracing Axelar GMP step")
       ELSE FormatSuccess(
              [title |-> "Axelar GMP (make account)", found |-> TRUE,
               transaction |->
                  [gmpId |-> IF gmpId = Undefined THEN "" ELSE gmpId,
                   event |-> event,
                   destTxHash |-> destTxHash,
                   sourceTxHash |-> sourceTxHash,
                   timestamp |-> timestamp,
                   explorerUrl |-> IF destTxHash # Undefined
                                   THEN <<chainInfo.EXPLORER_URL, destTxHash>>
                                   ELSE <<>>,
                   gmpUrl |-> IF gmpId # Undefined
                              THEN <<"https://axelarscan.io/gmp/", gmpId>>
                              ELSE <<>>],
               items |-> items, message |-> Undefined])

(***************************************************************************)
(* Provider data for Step 1: the records the GMP index may return for a    *)
(* search on one contract.  The record's id names the contract searched.   *)
(***************************************************************************)
GmpRecords(contract) ==
    {[call |-> [id |-> contract, event |-> "ContractCall",
                transactionHash |-> "AGORIC_SRC_TX", timestamp |-> 1700],
      approved |-> [transactionHash |-> "EVM_DST_TX"], timestamp |-> TimeAbsent],
     [call |-> [id |-> contract, event |-> "ContractCall",
                transactionHash |-> "AGORIC_SRC_TX", timestamp |-> TimeAbsent],
      approved |-> NoApproved, timestamp |-> 1600],
     [call |-> NoCall, approved |-> NoApproved, timestamp |-> TimeAbsent],
     [call |-> [id |-> contract, event |-> Undefined,
                transactionHash |-> Undefined, timestamp |-> TimeInvalid],
      approved |-> [transactionHash |-> "EVM_DST_TX"], timestamp |-> TimeAbsent]}

GmpPayloads(contract) ==
    {[shape |-> "data", data |-> d] : d \in SeqsUpTo(GmpRecords(contract), MaxTxs)}
    \cup {[shape |-> "none", data |-> <<>>]}


(***************************************************************************)
(* Step 4: finalEvmTxHandler.  An EVM transaction is a record of the       *)
(* fields of Etherscan's txlist; a receipt log is [topics, data].          *)
(***************************************************************************)
StartsWith(s, prefix) ==
    Len(s) >= Len(prefix) /\ SubSeq(s, 1, Len(prefix)) = prefix

ExecutePrefix == <<"e", "x", "e", "c", "u", "t", "e">>

\* String(t.functionName || '').startsWith('execute')
IsExecute(t) == StartsWith(t.functionName, ExecutePrefix)

\* Number(t.timeStamp || 0)
SortKey(t) == IF t.timeStamp = TimeAbsent THEN 0 ELSE t.timeStamp

\* Array.prototype.sort with (a, b) => key(b) - key(a): stable, descending.
RECURSIVE InsertDescending(_, _)
InsertDescending(sorted, t) ==
    IF sorted = <<>> THEN <<t>>
    ELSE IF SortKey(Head(sorted)) >= SortKey(t)
    THEN <<Head(sorted)>> \o InsertDescending(Tail(sorted), t)
    ELSE <<t>> \o sorted
RECURSIVE SortDescending(_)
SortDescending(ts) ==
    IF ts = <<>> THEN <<>>
    ELSE InsertDescending(SortDescending(SubSeq(ts, 1, Len(ts) - 1)), ts[Len(ts)])

ExecutesUnsorted(transactions) == SelectSeq(transactions, IsExecute)

\* transactions.filter(execute*), sorted by timestamp descending
Executes(transactions) == SortDescending(SelectSeq(transactions, IsExecute))

\* String(functionName).split('(')[0]
RECURSIVE MethodName(_)
MethodName(f) ==
    IF f = <<>> \/ Head(f) = "(" THEN <<>> ELSE <<Head(f)>> \o MethodName(Tail(f))

\* The items pushed before the receipt is fetched.
Step4BaseItems(evmTx, explorer) ==
    (IF evmTx.hash # Undefined
     THEN <<[label |-> "Tx Hash", value |-> evmTx.hash, href |-> <<explorer, evmTx.hash>>]>>
     ELSE <<>>)
    \o (IF evmTx.from # Undefined THEN <<[label |-> "From", value |-> evmTx.from]>> ELSE <<>>)
    \o (IF evmTx.to # Undefined THEN <<[label |-> "To", value |-> evmTx.to]>> ELSE <<>>)
    \o (IF evmTx.blockNumber # Undefined
        THEN <<[label |-> "Block", value |-> evmTx.blockNumber]>> ELSE <<>>)
    \o (IF evmTx.timeStamp # TimeAbsent
        THEN <<[label |-> "Time", value |-> evmTx.timeStamp]>> ELSE <<>>)
    \o (IF evmTx.functionName # <<>>
        THEN <<[label |-> "Method", value |-> MethodName(evmTx.functionName)]>> ELSE <<>>)
    \o (IF evmTx.gasUsed # Undefined
        THEN <<[label |-> "Gas Used", value |-> evmTx.gasUsed]>> ELSE <<>>)
    \o (IF evmTx.gasPrice # Undefined
        THEN <<[label |-> "Gas Price (Gwei)", value |-> evmTx.gasPrice]>> ELSE <<>>)

\* BigInt(text): [ok |-> TRUE, value |-> n], or [ok |-> FALSE] where it throws
\* a SyntaxError.  Blank text is 0n; decimal digits with an optional sign, and
\* 0x-prefixed hexadecimal digits, are numbers.
HexValues ==
    [c \in {HexDigits[i] : i \in 1..16} \cup {"A", "B", "C", "D", "E", "F"} |->
        IF IndexIn(HexDigits, c) > 0 THEN IndexIn(HexDigits, c) - 1
        ELSE IndexIn(HexDigits, ToLowerChar(c)) - 1]
DecValues == [c \in {Digits[i] : i \in 1..10} |-> IndexIn(Digits, c) - 1]

RECURSIVE DigitsValue(_, _, _)
DigitsValue(s, table, base) ==
    IF s = <<>> THEN 0
    ELSE DigitsValue(SubSeq(s, 1, Len(s) - 1), table, base) * base + table[s[Len(s)]]

NotANumber == [ok |-> FALSE, value |-> 0]

ParseBigInt(text) ==
    LET t == trim(text)
    IN IF t = <<>> THEN [ok |-> TRUE, value |-> 0]
       ELSE IF Len(t) >= 2 /\ t[1] = "0" /\ t[2] \in {"x", "X"}
       THEN LET d == SubSeq(t, 3, Len(t))
            IN IF d # <<>> /\ \A i \in 1..Len(d) : d[i] \in DOMAIN HexValues
               THEN [ok |-> TRUE, value |-> DigitsValue(d, HexValues, 16)]
               ELSE NotANumber
       ELSE LET signed == t[1] \in {"+", "-"}
                d == IF signed THEN Tail(t) ELSE t
            IN IF d # <<>> /\ \A i \in 1..Len(d) : d[i] \in DOMAIN DecValues
               THEN [ok |-> TRUE,
                     value |-> IF t[1] = "-" THEN 0 - DigitsValue(d, DecValues, 10)
                               ELSE DigitsValue(d, DecValues, 10)]
               ELSE NotANumber

TransferTopic == "0xddf252ad1be2c89b69c2b068fc378daa952ba7f163c4a11628f55a4df523b3ef"

\* log.topics?.[0] === transferTopic && log.topics.length >= 3, and
\* ('0x' + log.topics[2].slice(26)).toLowerCase() === destinationEvmAddress.toLowerCase()
IsTransferTo(log, destinationEvmAddress) ==
    /\ Len(log.topics) >= 3
    /\ log.topics[1] = TransferTopic
    /\ toLowerCase(<<"0", "x">> \o SubSeq(log.topics[3], 27, Len(log.topics[3])))
          = toLowerCase(destinationEvmAddress)

\* if (expectedAmount) { try { if (amount === BigInt(expectedAmount)) push } catch {} }
AmountMatchItems(amount, expectedAmount) ==
    IF /\ expectedAmount # <<>>
       /\ ParseBigInt(expectedAmount).ok
       /\ ParseBigInt(expectedAmount).value = amount
    THEN <<[label |-> "Amount Match", value |-> "Matches expected base-unit amount"]>>
    ELSE <<>>

\* The loop over receipt.logs: what it leaves in tokenTransferAmount and
\* what it pushes.  A log to the target sets tokenTransferAmount before its
\* data is parsed; data that does not parse moves on to the next log.
RECURSIVE ScanReceiptLogs(_, _, _, _)
ScanReceiptLogs(logs, destinationEvmAddress, expectedAmount, tokenTransferAmount) ==
    IF logs = <<>> THEN [tokenTransferAmount |-> tokenTransferAmount, items |-> <<>>]
    ELSE IF ~IsTransferTo(Head(logs), destinationEvmAddress)
    THEN ScanReceiptLogs(Tail(logs), destinationEvmAddress, expectedAmount,
                         tokenTransferAmount)
    ELSE LET data == Head(logs).data
             amountBaseUnits == ParseBigInt(data)
         IN IF ~amountBaseUnits.ok
            THEN ScanReceiptLogs(Tail(logs), destinationEvmAddress, expectedAmount, data)
            ELSE [tokenTransferAmount |-> data,
                  items |-> <<[label |-> "Token Transfer (base units)",
                               value |-> amountBaseUnits.value]>>
                            \o AmountMatchItems(amountBaseUnits.value, expectedAmount)]

\* receiptResponse?.result?.logs, or the empty list
ReceiptLogs(resp) ==
    IF resp = NullResponse THEN <<>>
    ELSE IF resp.shape = "receipt" /\ resp.hasLogs THEN resp.logs
    ELSE <<>>

Step4NotFoundSilent ==
    FormatSuccess(
        [step |-> "step4", title |-> "Final EVM Transaction", found |-> FALSE,
         items |-> <<>>, message |-> Undefined])

Step4NotFound ==
    FormatSuccess(
        [step |-> "step4", title |-> "Final EVM Transaction", found |-> FALSE,
         items |-> <<>>, message |-> "No execute* transactions found"])

\* From the receipt to the return: the sanitized transaction and the result,
\* or the error of the catch block when the timestamp cannot be rendered.
Step4Found(evmTx, explorer, baseItems, scan) ==
    IF DateThrows(evmTx.timeStamp)
    THEN FormatError("Error tracing final EVM transaction")
    ELSE FormatSuccess(
           [title |-> "Final EVM Transaction", found |-> TRUE,
            txHash |-> StringOf(evmTx.hash),
            tokenTransferAmount |-> scan.tokenTransferAmount,
            transaction |->
               [hash |-> StringOf(evmTx.hash), from |-> StringOf(evmTx.from),
                to |-> StringOf(evmTx.to), value |-> evmTx.value,
                blockNumber |-> evmTx.blockNumber, timeStamp |-> evmTx.timeStamp,
                gasUsed |-> evmTx.gasUsed, gasPrice |-> evmTx.gasPrice,
                method |-> MethodName(evmTx.functionName),
                confirmations |-> evmTx.confirmations,
                explorerUrl |-> <<explorer, StringOf(evmTx.hash)>>],
            items |-> baseItems \o scan.items])

(***************************************************************************)
(* Provider data for Step 4.                                               *)
(***************************************************************************)
EvmTx(hash, time, functionName) ==
    [hash |-> hash, from |-> "0xrelayer", to |-> "0xwallet", value |-> "0",
     blockNumber |-> "900", timeStamp |-> time, gasUsed |-> "21000",
     gasPrice |-> "25000000000", functionName |-> functionName,
     confirmations |-> "12"]

EvmTxs ==
    {EvmTx("EVM_TX_1", 100, ExecutePrefix \o <<"(", "b", ")">>),
     EvmTx("EVM_TX_2", 200, ExecutePrefix \o <<"B", "a", "t", "c", "h", "(", ")">>),
     EvmTx("EVM_TX_3", 300, <<"t", "r", "a", "n", "s", "f", "e", "r", "(", ")">>),
     EvmTx("EVM_TX_4", TimeAbsent, ExecutePrefix \o <<"(", ")">>),
     EvmTx(Undefined, 150, ExecutePrefix \o <<"(", ")">>),
     EvmTx("EVM_TX_6", 400, <<>>)}

TxListPayloads ==
    {[shape |-> "txlist", status |-> "1", isArray |-> TRUE, result |-> txs] :
        txs \in SeqsUpTo(EvmTxs, MaxTxs)}
    \cup {[shape |-> "txlist", status |-> "0", isArray |-> TRUE, result |-> <<>>],
          [shape |-> "txlist", status |-> "0", isArray |-> FALSE, result |-> <<>>]}

\* A 32-byte topic holding an address.
AddressTopic(hex) == <<"0", "x">> \o [i \in 1..24 |-> "0"] \o hex

ReceiptLog(topic0, to, data) ==
    [topics |-> <<topic0, "0xfromtopic", AddressTopic(to)>>, data |-> data]

ReceiptLogCatalog ==
    {ReceiptLog(TransferTopic, HexJoin(TargetBytes), <<"0", "x", "0", "5">>),
     ReceiptLog(TransferTopic, toUpperCase(HexJoin(TargetBytes)), <<"0", "x", "0", "7">>),
     ReceiptLog(TransferTopic, HexJoin(OtherBytes), <<"0", "x", "0", "5">>),
     ReceiptLog("0x8c5be1e5ebec7d5bd14f71427d1e84f3dd0314c0f7b2291e5b200ac8c7c3b925",
                HexJoin(TargetBytes), <<"0", "x", "0", "5">>),
     ReceiptLog(TransferTopic, HexJoin(TargetBytes), <<"0", "x">>),
     [topics |-> <<TransferTopic, "0xfromtopic">>, data |-> <<"0", "x", "0", "5">>]}

ReceiptPayloads ==
    {[shape |-> "receipt", hasLogs |-> TRUE, logs |-> ls] :
        ls \in SeqsUpTo(ReceiptLogCatalog, MaxLogs)}
    \cup {[shape |-> "receipt", hasLogs |-> FALSE, logs |-> <<>>]}


(***************************************************************************)
(* Step 2: agoricFundingTxHandler.  The value of a packet_data attribute   *)
(* is JSON text; the packets of ICS-20 are objects of string members, and  *)
(* JSONParse reads those (and null) and throws on every other text.        *)
(***************************************************************************)
RecvPacket == "recv_packet"
WriteAcknowledgement == "write_acknowledgement"
FungibleTokenPacket == "fungible_token_packet"

RECURSIVE SkipSpace(_, _)
SkipSpace(s, i) == IF i <= Len(s) /\ IsSpace(s[i]) THEN SkipSpace(s, i + 1) ELSE i

RECURSIVE ClosingQuote(_, _)
ClosingQuote(s, i) ==
    IF i > Len(s) THEN 0 ELSE IF s[i] = "\"" THEN i ELSE ClosingQuote(s, i + 1)

\* A string literal at position i: its text and the position after it.
ReadString(s, i) ==
    IF i > Len(s) \/ s[i] # "\"" \/ ClosingQuote(s, i + 1) = 0
    THEN [ok |-> FALSE, text |-> <<>>, next |-> i]
    ELSE [ok |-> TRUE, text |-> SubSeq(s, i + 1, ClosingQuote(s, i + 1) - 1),
          next |-> ClosingQuote(s, i + 1) + 1]

JsonThrows == [ok |-> FALSE, isNull |-> FALSE, members |-> <<>>]

\* The members of an object from position i on, after those in `members`.
RECURSIVE ReadMembers(_, _, _)
ReadMembers(s, i, members) ==
    LET key == ReadString(s, SkipSpace(s, i))
        colon == SkipSpace(s, key.next)
        val == ReadString(s, SkipSpace(s, colon + 1))
        after == SkipSpace(s, val.next)
        all == Append(members, [key |-> key.text, value |-> val.text])
    IN IF ~key.ok \/ colon > Len(s) \/ s[colon] # ":" \/ ~val.ok \/ after > Len(s)
       THEN JsonThrows
       ELSE IF s[after] = ","
       THEN ReadMembers(s, after + 1, all)
       ELSE IF s[after] = "}" /\ SkipSpace(s, after + 1) > Len(s)
       THEN [ok |-> TRUE, isNull |-> FALSE, members |-> all]
       ELSE JsonThrows

JSONParse(text) ==
    LET s == trim(text)
        first == SkipSpace(s, 2)
    IN IF s = <<"n", "u", "l", "l">>
       THEN [ok |-> TRUE, isNull |-> TRUE, members |-> <<>>]
       ELSE IF s = <<>> \/ s[1] # "{" THEN JsonThrows
       ELSE IF first <= Len(s) /\ s[first] = "}"
       THEN IF SkipSpace(s, first + 1) > Len(s)
            THEN [ok |-> TRUE, isNull |-> FALSE, members |-> <<>>]
            ELSE JsonThrows
       ELSE ReadMembers(s, 2, <<>>)

\* packet?.receiver: the last member of that name, or null
ReceiverOf(packet) ==
    LET hits == {i \in 1..Len(packet.members) :
                    packet.members[i].key = <<"r", "e", "c", "e", "i", "v", "e", "r">>}
    IN IF hits = {} THEN NullStr
       ELSE packet.members[CHOOSE i \in hits : \A j \in hits : i >= j].value

\* attributes.find((a) => a.key === key)?.value
FirstAttr(attributes, key) ==
    LET hits == {i \in 1..Len(attributes) : attributes[i].key = key}
    IN IF hits = {} THEN NullStr
       ELSE attributes[CHOOSE i \in hits : \A j \in hits : i <= j].value

Truthy(v) == v # NullStr /\ v # <<>>

\* The receiver an event yields, or null when the loop moves on.
EventReceiver(event) ==
    IF event.type \in {RecvPacket, WriteAcknowledgement}
    THEN LET packetData == FirstAttr(event.attributes, "packet_data")
             packet == JSONParse(packetData)
         IN IF Truthy(packetData) /\ packet.ok /\ Truthy(ReceiverOf(packet))
            THEN ReceiverOf(packet)
            ELSE NullStr
    ELSE IF event.type = FungibleTokenPacket
    THEN LET receiver == FirstAttr(event.attributes, "receiver")
         IN IF Truthy(receiver) THEN receiver ELSE NullStr
    ELSE NullStr

RECURSIVE LastReceiver(_)
LastReceiver(events) ==
    IF events = <<>> THEN NullStr
    ELSE IF EventReceiver(events[Len(events)]) # NullStr
    THEN EventReceiver(events[Len(events)])
    ELSE LastReceiver(SubSeq(events, 1, Len(events) - 1))

RECURSIVE FirstReceiver(_)
FirstReceiver(events) ==
    IF events = <<>> THEN NullStr
    ELSE IF EventReceiver(Head(events)) # NullStr THEN EventReceiver(Head(events))
    ELSE FirstReceiver(Tail(events))

extractReceiverFromLogs(logs) == FirstReceiver(FlatEvents(logs))

NoPacket == [sequence |-> Undefined, destination_channel |-> Undefined,
             destination_port |-> Undefined, present |-> FALSE]

\* The items of the loop over the messages of the matched transaction.
RECURSIVE PacketItems(_)
PacketItems(messages) ==
    IF messages = <<>> THEN <<>>
    ELSE LET packet == Head(messages).packet
         IN (IF packet.sequence # Undefined
             THEN <<[label |-> "IBC Packet Seq", value |-> packet.sequence]>> ELSE <<>>)
            \o (IF packet.destination_channel # Undefined
                THEN <<[label |-> "IBC Channel", value |-> packet.destination_channel]>>
                ELSE <<>>)
            \o (IF packet.destination_port # Undefined
                THEN <<[label |-> "IBC Port", value |-> packet.destination_port]>>
                ELSE <<>>)
            \o PacketItems(Tail(messages))

\* messages.find((m) => m?.packet)?.packet
PacketMsg(messages) ==
    LET hits == {i \in 1..Len(messages) : messages[i].packet.present}
    IN IF hits = {} THEN NoPacket
       ELSE messages[CHOOSE i \in hits : \A j \in hits : i <= j].packet

RECURSIVE Step2MatchIndexFolded(_, _, _)
Step2MatchIndexFolded(transactions, nobleAddress, i) ==
    IF i > Len(transactions) THEN 0
    ELSE IF toLowerCase(extractReceiverFromLogs(transactions[i].logs))
               = toLowerCase(nobleAddress) THEN i
    ELSE Step2MatchIndexFolded(transactions, nobleAddress, i + 1)

\* The first transaction of the page whose receiver is the Noble address,
\* as an index, or 0.
RECURSIVE Step2MatchIndex(_, _, _)
Step2MatchIndex(transactions, nobleAddress, i) ==
    IF i > Len(transactions) THEN 0
    ELSE IF extractReceiverFromLogs(transactions[i].logs) = nobleAddress THEN i
    ELSE Step2MatchIndex(transactions, nobleAddress, i + 1)

Step2MatchedItems(tx, nobleAddress) ==
    <<[label |-> "Agoric Tx", value |-> tx.txhash,
       href |-> <<"https://www.mintscan.io/agoric/txs/", StringOf(tx.txhash)>>],
      [label |-> "Receiver", value |-> JSString(nobleAddress)]>>
    \o PacketItems(tx.messages)

Step2ResultGeneric(found, items, scanned) ==
    FormatSuccess(
        [title |-> "Funding of Noble ICA + IBC ACK", found |-> found, items |-> items,
         message |-> IF found THEN Undefined ELSE "No transactions found",
         scanned |-> scanned])

\* The result; `scanned` is the transactions.length the message interpolates.
Step2Result(found, items, scanned) ==
    FormatSuccess(
        [title |-> "Funding of Noble ICA + IBC ACK", found |-> found, items |-> items,
         message |-> IF found THEN Undefined
                     ELSE "No relevant IBC acknowledgment transactions found in the last ${transactions.length} transactions (Mintscan limit: 20)",
         scanned |-> scanned])

NobleHashesUnfiltered(resp) ==
    IF resp = NullResponse THEN <<>> ELSE resp.tx_responses

\* getNobleTxByIbc: (data.tx_responses ?? []).map((tx) => tx.txhash).filter(Boolean)
NobleHashes(resp) ==
    IF resp = NullResponse THEN <<>>
    ELSE SelectSeq(resp.tx_responses, LAMBDA h : h # Undefined)

NobleTxItems(hashes) ==
    IF hashes = <<>> THEN <<>>
    ELSE <<[label |-> "Noble Tx", value |-> hashes[1],
            href |-> <<"https://www.mintscan.io/noble/txs/", hashes[1]>>]>>

(***************************************************************************)
(* Provider data for Step 2.                                               *)
(***************************************************************************)
IcaAddr == <<"n", "1">>
\* An address that differs from IcaAddr in letter case only.
OtherIca == <<"N", "1">>

ReceiverJson(receiver) ==
    <<"{", "\"", "d", "\"", ":", "\"", "u", "\"", ",", " ",
      "\"", "r", "e", "c", "e", "i", "v", "e", "r", "\"", ":", "\"">>
    \o receiver \o <<"\"", "}">>

PacketEvent(type, packetData) ==
    [type |-> type, attributes |-> <<[key |-> "packet_data", value |-> packetData]>>]

TokenPacketEvent(receiver) ==
    [type |-> FungibleTokenPacket,
     attributes |-> <<[key |-> "module", value |-> <<"t">>],
                      [key |-> "receiver", value |-> receiver]>>]

IbcPacket == [sequence |-> "7", destination_channel |-> "channel-21",
              destination_port |-> "transfer", present |-> TRUE]

AgoricTx(hash, events, messages) ==
    [txhash |-> hash, logs |-> <<[events |-> events]>>, messages |-> messages]

AgoricTxs ==
    {AgoricTx("AGORIC_TX_1", <<PacketEvent(RecvPacket, ReceiverJson(IcaAddr))>>,
              <<[packet |-> IbcPacket]>>),
     AgoricTx("AGORIC_TX_2", <<PacketEvent(WriteAcknowledgement, ReceiverJson(OtherIca))>>,
              <<[packet |-> IbcPacket]>>),
     AgoricTx("AGORIC_TX_3",
              <<PacketEvent(RecvPacket, <<"{", "r">>), TokenPacketEvent(IcaAddr)>>,
              <<[packet |-> NoPacket]>>),
     AgoricTx("AGORIC_TX_4", <<PacketEvent("message", ReceiverJson(IcaAddr))>>, <<>>),
     AgoricTx(Undefined, <<PacketEvent(WriteAcknowledgement, ReceiverJson(IcaAddr))>>,
              <<[packet |-> [IbcPacket EXCEPT !.sequence = Undefined]]>>)}

NobleByIbcPayloads ==
    {[shape |-> "tx_responses", tx_responses |-> hs] :
        hs \in {<<>>, <<"NOBLE_RECV_1">>, <<Undefined, "NOBLE_RECV_2">>}}


(***************************************************************************)
(* The planner: completeFlowHandler.                                       *)
(***************************************************************************)
IsUsdnAnyCase(positionName) == positionName \in {"USDN", "usdn"}

\* positionName === 'USDN'
IsUsdn(positionName) == positionName = "USDN"

UsdnSequence(p) ==
    <<[tool |-> "trace-agoric-funding-ack-step",
       params |-> [agoricAddress |-> p.agoricAddress, nobleAddress |-> p.nobleAddress,
                   take |-> 20],
       description |-> "Find Agoric funding and IBC acknowledgment to Noble"],
      [tool |-> "mintscan-get-address-transactions",
       params |-> [network |-> "noble", address |-> p.nobleAddress,
                   messageType |-> "noble.swap.v1.Swapped"],
       description |-> "Find Noble swap transaction (USDC <> USDN)"]>>

StandardSequence(p, destChain) ==
    <<[step |-> 1, tool |-> "trace-axelar-gmp-step",
       params |-> [destChain |-> destChain, agoricAddress |-> p.agoricAddress, size |-> 1],
       description |-> "Find Axelar GMP transaction for account creation on destination chain"],
      [step |-> 2, tool |-> "trace-agoric-funding-ack-step",
       params |-> [agoricAddress |-> p.agoricAddress, nobleAddress |-> p.nobleAddress,
                   take |-> 20],
       description |-> "Find Agoric funding transaction and IBC acknowledgment to Noble ICA"],
      [step |-> 3, tool |-> "trace-cctp-noble-step",
       params |-> [nobleAddress |-> p.nobleAddress, destChain |-> destChain,
                   destinationEvmAddress |-> p.destinationEvmAddress, take |-> 20],
       description |-> "Find CCTP burn transaction on Noble"],
      [step |-> 4, tool |-> "trace-final-evm-step",
       params |-> [destChain |-> destChain,
                   destinationEvmAddress |-> p.destinationEvmAddress],
       description |-> "Find final EVM transaction (add expectedAmount from step 3 if available)"]>>

\* The value completeFlowHandler returns for the parameter object p.
CompleteFlowResult(p) ==
    IF p.agoricAddress = "" \/ p.nobleAddress = "" \/ p.destChain = <<>>
       \/ p.destinationEvmAddress = <<>>
    THEN FormatError("Missing required parameters")
    ELSE IF IsUsdn(p.positionName)
    THEN FormatSuccess(
           [flow |-> "USDN",
            message |-> "USDN flow uses different steps: Agoric funding + IBC ACK, then Noble swap",
            recommendedSequence |-> UsdnSequence(p)])
    ELSE FormatSuccess(
           [flow |-> "cross-chain", agoricAddress |-> p.agoricAddress,
            nobleAddress |-> p.nobleAddress,
            destChain |-> canonicalizeChain(p.destChain),
            destinationEvmAddress |-> p.destinationEvmAddress,
            message |-> "Execute these tools in sequence to trace the complete cross-chain flow:",
            recommendedSequence |-> StandardSequence(p, canonicalizeChain(p.destChain))])

\* positionName: absent, 'USDN', and names that are not 'USDN'.
PositionNames == {Undefined, "USDN", "usdn", "USDN ", "", "Aave"}

(***************************************************************************)
(* An invocation of a step handler.                                        *)
(*   pc = "start"   the handler has been called                            *)
(*   pc = "http"    the handler awaits makeRequest, whose loop is running  *)
(*   pc = "resume"  makeRequest has returned, the handler continues        *)
(*   pc = "done"    the handler has returned `result`                      *)
(***************************************************************************)
NoResponse == [isNull |-> FALSE, shape |-> "<no response>"]

Chains ==
    {<<>>,
     <<"a", "v", "a", "l", "a", "n", "c", "h", "e">>,
     <<"B", "a", "s", "e">>,
     <<"s", "o", "l", "a", "n", "a">>}

Step3Params ==
    {[nobleAddress |-> n, destChain |-> c, destinationEvmAddress |-> d, take |-> 20] :
        n \in {"", "noble1ica"}, c \in Chains,
        d \in {<<>>, TargetAddr, TargetAddrUpper, <<"0", "x">>}}

Step1Params ==
    {[destChain |-> c, agoricAddress |-> a, size |-> 1] :
        c \in Chains \cup {<<"E", "t", "h", "e", "r", "e", "u", "m">>},
        a \in {"", "agoric1src"}}

Step4Params ==
    {[destChain |-> c, destinationEvmAddress |-> d, expectedAmount |-> e] :
        c \in {<<>>, <<"B", "a", "s", "e">>, <<"s", "o", "l", "a", "n", "a">>},
        d \in {<<>>, TargetAddr, TargetAddrUpper},
        e \in {<<>>, <<"5">>, <<"0", "5">>, <<"5", "u">>}}

Step2Params ==
    {[agoricAddress |-> a, nobleAddress |-> n, take |-> 20] :
        a \in {"", "agoric1src"}, n \in {<<>>, IcaAddr}}

PlanParams ==
    {[agoricAddress |-> a, nobleAddress |-> n, destChain |-> c,
      destinationEvmAddress |-> d, positionName |-> pn] :
        a \in {"", "agoric1src"}, n \in {"", "noble1ica"}, c \in Chains,
        d \in {<<>>, TargetAddr}, pn \in PositionNames}

ParamsOf(s) ==
    CASE s = "plan" -> PlanParams
      [] s = "step1" -> Step1Params
      [] s = "step2" -> Step2Params
      [] s = "step3" -> Step3Params
      [] s = "step4" -> Step4Params

EnvsOf(s) ==
    CASE s = "plan" -> {[mintscan |-> TRUE, etherscan |-> TRUE]}
      [] s = "step1" -> {[mintscan |-> TRUE, etherscan |-> TRUE]}
      [] s = "step2" -> {[mintscan |-> m, etherscan |-> TRUE] : m \in BOOLEAN}
      [] s = "step3" -> {[mintscan |-> m, etherscan |-> TRUE] : m \in BOOLEAN}
      [] s = "step4" -> {[mintscan |-> TRUE, etherscan |-> e] : e \in BOOLEAN}

Steps == {"plan", "step1", "step2", "step3", "step4"}

NoblePayloads == MintscanPayloads(NobleTxs)
AgoricPayloads == MintscanPayloads(AgoricTxs)

\* The JSON bodies a request may be answered with.
PayloadsFor(req) ==
    CASE req.api = "axelar" -> GmpPayloads(req.target)
      [] req.api = "mintscan-noble" -> NoblePayloads
      [] req.api = "mintscan-agoric" -> AgoricPayloads
      [] req.api = "noble-by-ibc" -> NobleByIbcPayloads
      [] req.api = "etherscan-txlist" -> TxListPayloads
      [] req.api = "etherscan-receipt" -> ReceiptPayloads

\* getMintscanHeaders() !== null
HasMintscanHeaders == env.mintscan

NoEtherscanApiKey == FALSE

\* getEtherscanApiKey() !== null
HasEtherscanApiKey == env.etherscan

Init ==
    /\ step \in Steps
    /\ pc = "start"
    /\ params \in ParamsOf(step)
    /\ env \in EnvsOf(step)
    /\ mr = IdleMr
    /\ response = NoResponse
    /\ requests = <<>>
    /\ loc = [none |-> TRUE]
    /\ result = NoResult
    /\ fnIn = <<>>
    /\ fnOut = <<>>

\* ---- makeRequest ----
SameRetryDelay(delay) == delay

\* currentRetryDelay *= 2
NextRetryDelay(delay) == delay * 2

\* An attempt whose fetch succeeds with a 2xx status and a JSON body.
FetchOk ==
    /\ pc = "http" /\ mr.active /\ mr.attempt < mr.retries
    /\ response' \in PayloadsFor(requests[Len(requests)])
    /\ mr' = [mr EXCEPT !.active = FALSE, !.fetches = @ + 1, !.lastError = "none"]
    /\ pc' = "resume"
    /\ UNCHANGED <<step, params, env, requests, loc, result, fnIn, fnOut>>

\* A catch block that sleeps after every failed attempt, the last included.
FetchFailAlwaysSleeps ==
    /\ pc = "http" /\ mr.active /\ mr.attempt < mr.retries
    /\ \E kind \in FailureKinds :
          mr' = [mr EXCEPT
                    !.fetches = @ + 1,
                    !.lastError = kind,
                    !.sleeps = Append(@, mr.currentRetryDelay),
                    !.currentRetryDelay = NextRetryDelay(@),
                    !.attempt = @ + 1]
    /\ UNCHANGED <<step, pc, params, env, response, requests, loc, result, fnIn, fnOut>>

\* An attempt that throws (network error, non-2xx status, invalid JSON):
\* the catch block sleeps and doubles the delay unless it was the last one.
FetchFail ==
    /\ pc = "http" /\ mr.active /\ mr.attempt < mr.retries
    /\ \E kind \in FailureKinds :
          mr' = [mr EXCEPT
                    !.fetches = @ + 1,
                    !.lastError = kind,
                    !.sleeps = IF mr.attempt < mr.retries - 1
                               THEN Append(@, mr.currentRetryDelay) ELSE @,
                    !.currentRetryDelay = IF mr.attempt < mr.retries - 1
                                          THEN NextRetryDelay(@) ELSE @,
                    !.attempt = @ + 1]
    /\ UNCHANGED <<step, pc, params, env, response, requests, loc, result, fnIn, fnOut>>

\* The loop is over without a response: makeRequest returns null.
ReturnNull ==
    /\ pc = "http" /\ mr.active /\ mr.attempt >= mr.retries
    /\ response' = NullResponse
    /\ mr' = [mr EXCEPT !.active = FALSE, !.lastError = "none"]
    /\ requests' = MarkExhausted(requests)
    /\ pc' = "resume"
    /\ UNCHANGED <<step, params, env, loc, result, fnIn, fnOut>>

\* ---- completeFlowHandler ----
\* The handler awaits nothing: from the call to the return.
CompleteFlow ==
    /\ step = "plan" /\ pc = "start"
    /\ result' = CompleteFlowResult(params)
    /\ pc' = "done"
    /\ UNCHANGED <<step, params, env, mr, response, requests, loc, fnIn, fnOut>>

\* ---- agoricFundingTxHandler ----
\* From the call to the await of httpGet.
Step2Start ==
    /\ step = "step2" /\ pc = "start"
    /\ IF params.agoricAddress = "" \/ params.nobleAddress = <<>>
       THEN /\ result' = FormatError("Missing required parameters")
            /\ pc' = "done"
            /\ UNCHANGED <<mr, requests, loc>>
       ELSE /\ loc' = [phase |-> "transactions"]
            /\ requests' = Append(requests,
                              [api |-> "mintscan-agoric", target |-> params.agoricAddress,
                               auth |-> HasMintscanHeaders, exhausted |-> FALSE])
            /\ mr' = StartMr(3)
            /\ pc' = "http"
            /\ UNCHANGED result
    /\ UNCHANGED <<step, params, env, response, fnIn, fnOut>>

\* From the page of transactions to the await of getNobleTxByIbc, or to the
\* return.
Step2ResumeTransactions ==
    /\ step = "step2" /\ pc = "resume" /\ loc.phase = "transactions"
    /\ LET transactions == TransactionsOf(response)
           i == Step2MatchIndex(transactions, params.nobleAddress, 1)
           items == Step2MatchedItems(transactions[i], params.nobleAddress)
           packet == PacketMsg(transactions[i].messages)
       IN IF NotIterable(response)
          THEN /\ result' = FormatError("Error tracing Agoric funding ACK step")
               /\ pc' = "done" /\ mr' = IdleMr
               /\ UNCHANGED <<response, requests, loc>>
          ELSE IF i = 0
          THEN /\ result' = Step2Result(FALSE, <<>>, Len(transactions))
               /\ pc' = "done" /\ mr' = IdleMr
               /\ UNCHANGED <<response, requests, loc>>
          ELSE IF packet.present /\ packet.destination_channel # Undefined
                  /\ packet.sequence # Undefined
          THEN /\ loc' = [phase |-> "nobleTx", items |-> items,
                          scanned |-> Len(transactions)]
               /\ requests' = Append(requests,
                                 [api |-> "noble-by-ibc",
                                  target |-> <<packet.destination_channel, packet.sequence>>,
                                  auth |-> FALSE, exhausted |-> FALSE])
               /\ mr' = StartMr(3)
               /\ pc' = "http"
               /\ response' = NoResponse
               /\ UNCHANGED result
          ELSE /\ result' = Step2Result(TRUE, items, Len(transactions))
               /\ pc' = "done" /\ mr' = IdleMr
               /\ UNCHANGED <<response, requests, loc>>
    /\ UNCHANGED <<step, params, env, fnIn, fnOut>>

\* From the response of getNobleTxByIbc to the return.
Step2ResumeNobleTx ==
    /\ step = "step2" /\ pc = "resume" /\ loc.phase = "nobleTx"
    /\ result' = Step2Result(TRUE, loc.items \o NobleTxItems(NobleHashes(response)),
                             loc.scanned)
    /\ mr' = IdleMr
    /\ pc' = "done"
    /\ UNCHANGED <<step, params, env, response, requests, loc, fnIn, fnOut>>

\* ---- cctpNobleTxHandler ----
\* From the call to the await of httpGet.
Step3Start ==
    /\ step = "step3" /\ pc = "start"
    /\ IF params.nobleAddress = "" \/ params.destChain = <<>>
          \/ params.destinationEvmAddress = <<>>
       THEN /\ result' = FormatError("Missing required parameters")
            /\ pc' = "done"
            /\ UNCHANGED <<mr, requests, loc>>
       ELSE /\ loc' = [destChain |-> canonicalizeChain(params.destChain)]
            /\ requests' = Append(requests,
                              [api |-> "mintscan-noble", target |-> params.nobleAddress,
                               auth |-> HasMintscanHeaders, exhausted |-> FALSE])
            /\ mr' = StartMr(3)
            /\ pc' = "http"
            /\ UNCHANGED result
    /\ UNCHANGED <<step, params, env, response, fnIn, fnOut>>

\* From the response to the return.
Step3Resume ==
    /\ step = "step3" /\ pc = "resume"
    /\ LET chainInfo == getChainInfo(loc.destChain)
       IN result' =
            IF chainInfo = NoChainInfo
            THEN FormatError("Unsupported destination chain")
            ELSE IF NotIterable(response)
            THEN FormatError("Error tracing CCTP Noble step")
            ELSE Step3Scan(TransactionsOf(response), chainInfo.CCTP_DOMAIN,
                           params.destinationEvmAddress)
    /\ mr' = IdleMr
    /\ pc' = "done"
    /\ UNCHANGED <<step, params, env, response, requests, loc, fnIn, fnOut>>

\* ---- axelarGmpTxHandler ----
\* The request of one iteration of the loop over FACTORY_CONTRACTS.
GmpRequest(factoryAddress) ==
    [api |-> "axelar", target |-> factoryAddress, auth |-> FALSE, exhausted |-> FALSE]

\* From the call to the await of the first post.
Step1Start ==
    /\ step = "step1" /\ pc = "start"
    /\ LET destChain == canonicalizeChain(params.destChain)
           chainInfo == getChainInfo(destChain)
       IN IF params.destChain = <<>> \/ params.agoricAddress = ""
          THEN /\ result' = FormatError("Missing required parameters")
               /\ pc' = "done"
               /\ UNCHANGED <<mr, requests, loc>>
          ELSE IF Len(chainInfo.FACTORY_CONTRACTS) = 0
          THEN /\ result' = FormatError("No factory contracts configured for chain")
               /\ pc' = "done"
               /\ UNCHANGED <<mr, requests, loc>>
          ELSE /\ loc' = [destChain |-> destChain, index |-> 1]
               /\ requests' = Append(requests, GmpRequest(chainInfo.FACTORY_CONTRACTS[1]))
               /\ mr' = StartMr(DefaultRetries)
               /\ pc' = "http"
               /\ UNCHANGED result
    /\ UNCHANGED <<step, params, env, response, fnIn, fnOut>>

Step1NeverStops(resp) == FALSE

\* if (Array.isArray(data?.data) && data.data.length > 0) { gmpData = data; break; }
Step1StopsProbing(resp) == HasGmpData(resp)

\* From a response to the next post, or to the return.
Step1Resume ==
    /\ step = "step1" /\ pc = "resume"
    /\ LET chainInfo == getChainInfo(loc.destChain)
           contracts == chainInfo.FACTORY_CONTRACTS
       IN IF Step1StopsProbing(response)
          THEN /\ result' = Step1Found(response.data[1], chainInfo)
               /\ pc' = "done"
               /\ mr' = IdleMr
               /\ UNCHANGED <<response, requests, loc>>
          ELSE IF loc.index < Len(contracts)
          THEN /\ loc' = [loc EXCEPT !.index = @ + 1]
               /\ requests' = Append(requests, GmpRequest(contracts[loc.index + 1]))
               /\ mr' = StartMr(DefaultRetries)
               /\ pc' = "http"
               /\ response' = NoResponse
               /\ UNCHANGED result
          ELSE /\ result' = Step1NotFound
               /\ pc' = "done"
               /\ mr' = IdleMr
               /\ UNCHANGED <<response, requests, loc>>
    /\ UNCHANGED <<step, params, env, fnIn, fnOut>>

\* ---- finalEvmTxHandler ----
\* From the call to the await of the txlist request.
Step4Start ==
    /\ step = "step4" /\ pc = "start"
    /\ LET destChain == canonicalizeChain(params.destChain)
       IN IF params.destChain = <<>> \/ params.destinationEvmAddress = <<>>
          THEN /\ result' = FormatError("Missing required parameters")
               /\ pc' = "done"
               /\ UNCHANGED <<mr, requests, loc>>
          ELSE IF getChainInfo(destChain) = NoChainInfo
          THEN /\ result' = FormatError("Unsupported destination chain")
               /\ pc' = "done"
               /\ UNCHANGED <<mr, requests, loc>>
          ELSE IF ~HasEtherscanApiKey
          THEN /\ result' = FormatError("Missing Etherscan API key")
               /\ pc' = "done"
               /\ UNCHANGED <<mr, requests, loc>>
          ELSE /\ loc' = [destChain |-> destChain, phase |-> "txlist"]
               /\ requests' = Append(requests,
                                 [api |-> "etherscan-txlist",
                                  target |-> params.destinationEvmAddress,
                                  auth |-> TRUE, exhausted |-> FALSE])
               /\ mr' = StartMr(DefaultRetries)
               /\ pc' = "http"
               /\ UNCHANGED result
    /\ UNCHANGED <<step, params, env, response, fnIn, fnOut>>

\* From the txlist response to the await of the receipt request, or to the
\* return.
Step4ResumeTxList ==
    /\ step = "step4" /\ pc = "resume" /\ loc.phase = "txlist"
    /\ LET chainInfo == getChainInfo(loc.destChain)
           executes == Executes(response.result)
       IN IF response = NullResponse
          THEN /\ result' = FormatError("Etherscan API request failed")
               /\ pc' = "done" /\ mr' = IdleMr
               /\ UNCHANGED <<response, requests, loc>>
          ELSE IF response.status = "0" /\ ~response.isArray
          THEN /\ result' = FormatError("Etherscan error")
               /\ pc' = "done" /\ mr' = IdleMr
               /\ UNCHANGED <<response, requests, loc>>
          ELSE IF executes = <<>>
          THEN /\ result' = Step4NotFound
               /\ pc' = "done" /\ mr' = IdleMr
               /\ UNCHANGED <<response, requests, loc>>
          ELSE /\ loc' = [destChain |-> loc.destChain, phase |-> "receipt",
                          executeCount |-> Len(executes), evmTx |-> executes[1],
                          items |-> Step4BaseItems(executes[1], chainInfo.EXPLORER_URL)]
               /\ requests' = Append(requests,
                                 [api |-> "etherscan-receipt",
                                  target |-> StringOf(executes[1].hash),
                                  auth |-> TRUE, exhausted |-> FALSE])
               /\ mr' = StartMr(DefaultRetries)
               /\ pc' = "http"
               /\ response' = NoResponse
               /\ UNCHANGED result
    /\ UNCHANGED <<step, params, env, fnIn, fnOut>>

\* From the receipt response to the return.
Step4ResumeReceipt ==
    /\ step = "step4" /\ pc = "resume" /\ loc.phase = "receipt"
    /\ LET chainInfo == getChainInfo(loc.destChain)
           scan == ScanReceiptLogs(ReceiptLogs(response), params.destinationEvmAddress,
                                   params.expectedAmount, NullStr)
       IN result' = Step4Found(loc.evmTx, chainInfo.EXPLORER_URL, loc.items, scan)
    /\ mr' = IdleMr
    /\ pc' = "done"
    /\ UNCHANGED <<step, params, env, response, requests, loc, fnIn, fnOut>>

Next ==
    \/ FetchOk
    \/ FetchFail
    \/ ReturnNull
    \/ CompleteFlow
    \/ Step1Start
    \/ Step1Resume
    \/ Step2Start
    \/ Step2ResumeTransactions
    \/ Step2ResumeNobleTx
    \/ Step3Start
    \/ Step3Resume
    \/ Step4Start
    \/ Step4ResumeTxList
    \/ Step4ResumeReceipt

Spec == Init /\ [][Next]_vars

\* A handler that is at its call or at a settled await takes its next step:
\* it issues a request or returns.
Continue == pc \in {"start", "resume"} /\ pc' \in {"http", "done"}

\* Every fetch settles (with a response or a failure) and every timer of the
\* backoff fires; the event loop runs every continuation of a handler.
SpecFair ==
    /\ Spec
    /\ WF_vars(FetchOk \/ FetchFail \/ ReturnNull)
    /\ WF_pc(Continue)


(***************************************************************************)
(* Harness of the pure helpers: the input is drawn by Init and the helper  *)
(* is applied by an action.  The handler variables stay idle.              *)
(***************************************************************************)
IdleHandler ==
    /\ params = [none |-> TRUE]
    /\ env = [none |-> TRUE]
    /\ mr = [active |-> FALSE]
    /\ response = NoValue
    /\ requests = <<>>
    /\ loc = [none |-> TRUE]
    /\ result = NoResult

handlerVars == <<params, env, mr, response, requests, loc, result>>

\* ---- normalizeAddress ----
NormAlphabet == {"0", "x", "X", "a", "A", " "}
VariantKinds == {"upper", "lower", "addPrefix", "dropPrefix"}

\* A string that differs from x only in letter case or in a leading 0x.
Variant(kind, x) ==
    CASE kind = "upper" -> toUpperCase(x)
      [] kind = "lower" -> toLowerCase(x)
      [] kind = "addPrefix" -> <<"0", "x">> \o x
      [] kind = "dropPrefix" -> Strip0x(x)

InitNorm ==
    /\ step = "normalizeAddress"
    /\ pc = "start"
    /\ \E x \in SeqsUpTo(NormAlphabet, MaxStrLen), k \in VariantKinds :
          fnIn = [x |-> x, y |-> Variant(k, x)]
    /\ fnOut = <<>>
    /\ IdleHandler

NormalizeOnce ==
    /\ step = "normalizeAddress" /\ pc = "start"
    /\ fnOut' = <<normalizeAddress(fnIn.x), normalizeAddress(fnIn.y)>>
    /\ pc' = "once"
    /\ UNCHANGED <<step, fnIn, handlerVars>>

NormalizeAgain ==
    /\ step = "normalizeAddress" /\ pc = "once"
    /\ fnOut' = Append(fnOut, normalizeAddress(fnOut[1]))
    /\ pc' = "twice"
    /\ UNCHANGED <<step, fnIn, handlerVars>>

NextNorm == NormalizeOnce \/ NormalizeAgain

SpecNorm == InitNorm /\ [][NextNorm]_vars

\* ---- decodeMintRecipient ----
BlobKinds == {"padded", "unpadded", "spaced", "badChar", "strayChar", "innerPad"}
Seeds == {0, 7, 250}
Strides == {1, 37}

PatternBytes(seed, stride, n) == [i \in 1..n |-> (seed + i * stride) % 256]

\* The text a provider (or a corrupted record) carries for the given bytes.
Blob(kind, bytes) ==
    LET e == Base64Encode(bytes)
        bare == SelectSeq(e, LAMBDA c : c # "=")
    IN CASE kind = "padded" -> e
         [] kind = "unpadded" -> bare
         [] kind = "spaced" -> <<" ">> \o e \o <<"\n">>
         [] kind = "badChar" -> <<"!">> \o e
         [] kind = "strayChar" ->
               \* one character too many: length 4k+1 after the padding is gone
               bare \o [i \in 1..(5 - (Len(bare) % 4)) % 4 |-> "A"]
         [] kind = "innerPad" -> <<"=">> \o bare

InitDecode ==
    /\ step = "decodeMintRecipient"
    /\ pc = "start"
    /\ \E seed \in Seeds, stride \in Strides, n \in 0..MaxBytes, k \in BlobKinds :
          LET bytes == PatternBytes(seed, stride, n)
          IN fnIn = [bytes |-> bytes, kind |-> k, blob |-> Blob(k, bytes)]
    /\ fnOut = <<>>
    /\ IdleHandler

DecodeApply ==
    /\ step = "decodeMintRecipient" /\ pc = "start"
    /\ fnOut' = <<decodeMintRecipient(fnIn.blob)>>
    /\ pc' = "done"
    /\ UNCHANGED <<step, fnIn, handlerVars>>

NextDecode == DecodeApply

SpecDecode == InitDecode /\ [][NextDecode]_vars

\* ---- getChainInfo ----
\* z.enum(['avalanche', 'arbitrum', 'ethereum', 'optimism', 'base'])
evmChainEnum ==
    {<<"a", "v", "a", "l", "a", "n", "c", "h", "e">>,
     <<"a", "r", "b", "i", "t", "r", "u", "m">>,
     <<"e", "t", "h", "e", "r", "e", "u", "m">>,
     <<"o", "p", "t", "i", "m", "i", "s", "m">>,
     <<"b", "a", "s", "e">>}

CaseMasks == 0..15

\* name with the letters at the positions the mask selects in upper case.
CaseVariant(name, mask) ==
    [i \in 1..Len(name) |->
        IF (mask \div (2 ^ (i % 4))) % 2 = 1
        THEN UpperLetters[IndexIn(LowerLetters, name[i])]
        ELSE name[i]]

\* Names that are no letter-case form of a schema name.
OtherChainNames ==
    {<<>>, NullStr,
     <<"s", "o", "l", "a", "n", "a">>,
     <<"b", "a", "s">>,
     <<"b", "a", "s", "e", "e">>,
     <<" ", "b", "a", "s", "e">>,
     <<"B", "A", "S", "E", " ">>,
     <<"e", "t", "h">>,
     <<"1">>,
     <<"o", "p", "t", "i", "m", "i", "s", "m", "-", "1">>,
     <<"a", "r", "b", DotlessI, "t", "r", "u", "m">>,
     <<"o", "p", "t", DotlessI, "m", DotlessI, "s", "m">>,
     <<"b", "a", LongS, "e">>}

ChainNames ==
    {CaseVariant(name, mask) : name \in evmChainEnum, mask \in CaseMasks}
        \cup OtherChainNames

InitChain ==
    /\ step = "getChainInfo"
    /\ pc = "start"
    /\ \E name \in ChainNames : fnIn = [chain |-> name]
    /\ fnOut = <<>>
    /\ IdleHandler

ChainInfoApply ==
    /\ step = "getChainInfo" /\ pc = "start"
    /\ fnOut' = <<getChainInfo(fnIn.chain)>>
    /\ pc' = "done"
    /\ UNCHANGED <<step, fnIn, handlerVars>>

NextChain == ChainInfoApply

SpecChain == InitChain /\ [][NextChain]_vars

\* ---- extractCctpDataFromLogs ----
\* The events a log may carry: marker events with both attributes, with one
\* or with none, and events of another type that carry the same keys.
CctpEvents ==
    {BurnEvent(DepositForBurn, Base64Encode(ZeroPad \o TargetBytes), <<"1">>),
     BurnEvent(DepositForBurn, Quote(Base64Encode(ZeroPad \o OtherBytes)), Quote(<<"6">>)),
     [type |-> DepositForBurn,
      attributes |-> <<[key |-> "destination_domain", value |-> <<"3">>],
                       [key |-> "mint_recipient", value |-> NullStr]>>],
     [type |-> DepositForBurn, attributes |-> <<>>],
     BurnEvent("burn", Base64Encode(ZeroPad \o Tail(OtherBytes) \o <<7>>), <<"0">>),
     BurnEvent("message", Base64Encode(Tail(TargetBytes) \o <<9>>), <<"2">>)}

CctpLogs == {[events |-> es] : es \in SeqsUpTo(CctpEvents, 2)}

InitExtract ==
    /\ step = "extractCctpDataFromLogs"
    /\ pc = "start"
    /\ \E logs \in SeqsUpTo(CctpLogs, MaxLogs) : fnIn = [logs |-> logs]
    /\ fnOut = <<>>
    /\ IdleHandler

ExtractApply ==
    /\ step = "extractCctpDataFromLogs" /\ pc = "start"
    /\ fnOut' = <<extractCctpDataFromLogs(fnIn.logs)>>
    /\ pc' = "done"
    /\ UNCHANGED <<step, fnIn, handlerVars>>

NextExtract == ExtractApply

SpecExtract == InitExtract /\ [][NextExtract]_vars

\* ---- Two invocations of the step handlers on one isolate ----
\* The handler variables hold the invocation that is running; fnIn holds the
\* one that is suspended, fnOut the module-level state (the chain registry)
\* and the record of what each invocation returns when it runs alone.  The
\* providers answer the i-th request of an invocation as its script says.
RegistryKeys == {toUpperCase(c) : c \in evmChainEnum}
Registry == [key \in RegistryKeys |-> EVM_CHAIN_INFO(key)]

ScriptChoices == {"null", "empty", "hit"}
Scripts ==
    {<<"hit", "hit", "hit">>, <<"empty", "hit", "null">>,
     <<"hit", "null", "empty">>, <<"null", "null", "null">>}

\* The body a provider returns for req under choice "hit" or "empty".
ScriptedPayload(req, choice) ==
    CASE req.api = "axelar" ->
            IF choice = "hit"
            THEN [shape |-> "data",
                  data |-> <<CHOOSE r \in GmpRecords(req.target) :
                                r.approved # NoApproved>>]
            ELSE [shape |-> "none", data |-> <<>>]
      [] req.api = "mintscan-noble" ->
            IF choice = "hit"
            THEN [shape |-> "data.transactions",
                  transactions |-> <<CHOOSE t \in NobleTxs : t.txhash = "NOBLE_TX_1">>]
            ELSE [shape |-> "none", transactions |-> <<>>]
      [] req.api = "mintscan-agoric" ->
            IF choice = "hit"
            THEN [shape |-> "data.transactions",
                  transactions |-> <<CHOOSE t \in AgoricTxs : t.txhash = "AGORIC_TX_1">>]
            ELSE [shape |-> "none", transactions |-> <<>>]
      [] req.api = "noble-by-ibc" ->
            [shape |-> "tx_responses",
             tx_responses |-> IF choice = "hit" THEN <<"NOBLE_RECV_1">> ELSE <<>>]
      [] req.api = "etherscan-txlist" ->
            IF choice = "hit"
            THEN [shape |-> "txlist", status |-> "1", isArray |-> TRUE,
                  result |-> <<CHOOSE t \in EvmTxs : t.hash = "EVM_TX_2">>]
            ELSE [shape |-> "txlist", status |-> "0", isArray |-> TRUE, result |-> <<>>]
      [] req.api = "etherscan-receipt" ->
            IF choice = "hit"
            THEN [shape |-> "receipt", hasLogs |-> TRUE,
                  logs |-> <<ReceiptLog(TransferTopic, HexJoin(TargetBytes),
                                        <<"0", "x", "0", "5">>)>>]
            ELSE [shape |-> "receipt", hasLogs |-> FALSE, logs |-> <<>>]

\* The invocations a pair is drawn from: for each step one whose parameters
\* pass the checks, under every script, and one that fails them.
Invocations ==
    {[step |-> "step1",
      params |-> [destChain |-> <<"E", "t", "h", "e", "r", "e", "u", "m">>,
                  agoricAddress |-> "agoric1src", size |-> 1],
      env |-> [mintscan |-> TRUE, etherscan |-> TRUE, script |-> sc]] : sc \in Scripts}
    \cup {[step |-> "step2",
           params |-> [agoricAddress |-> "agoric1src", nobleAddress |-> IcaAddr,
                       take |-> 20],
           env |-> [mintscan |-> TRUE, etherscan |-> TRUE, script |-> sc]] :
              sc \in Scripts}
    \cup {[step |-> "step3",
           params |-> [nobleAddress |-> "noble1ica",
                       destChain |-> <<"a", "v", "a", "l", "a", "n", "c", "h", "e">>,
                       destinationEvmAddress |-> TargetAddr, take |-> 20],
           env |-> [mintscan |-> TRUE, etherscan |-> TRUE, script |-> sc]] :
              sc \in Scripts}
    \cup {[step |-> "step4",
           params |-> [destChain |-> <<"B", "a", "s", "e">>,
                       destinationEvmAddress |-> TargetAddrUpper,
                       expectedAmount |-> <<"5">>],
           env |-> [mintscan |-> TRUE, etherscan |-> TRUE, script |-> sc]] :
              sc \in Scripts}
    \cup {[step |-> "step3",
           params |-> [nobleAddress |-> "noble1ica",
                       destChain |-> <<"s", "o", "l", "a", "n", "a">>,
                       destinationEvmAddress |-> TargetAddr, take |-> 20],
           env |-> [mintscan |-> TRUE, etherscan |-> TRUE,
                    script |-> <<"hit", "hit", "hit">>]],
          [step |-> "step4",
           params |-> [destChain |-> <<"B", "a", "s", "e">>,
                       destinationEvmAddress |-> TargetAddr,
                       expectedAmount |-> <<>>],
           env |-> [mintscan |-> TRUE, etherscan |-> FALSE,
                    script |-> <<"hit", "hit", "hit">>]]}

\* An invocation at its call.
Fresh(inv) ==
    [step |-> inv.step, pc |-> "start", params |-> inv.params, env |-> inv.env,
     mr |-> IdleMr, response |-> NoResponse, requests |-> <<>>,
     loc |-> [none |-> TRUE], result |-> NoResult]

Running ==
    [step |-> step, pc |-> pc, params |-> params, env |-> env, mr |-> mr,
     response |-> response, requests |-> requests, loc |-> loc, result |-> result]

\* The handler variables take the values of ctx.
Load(ctx) ==
    /\ step' = ctx.step /\ pc' = ctx.pc /\ params' = ctx.params /\ env' = ctx.env
    /\ mr' = ctx.mr /\ response' = ctx.response /\ requests' = ctx.requests
    /\ loc' = ctx.loc /\ result' = ctx.result

InitPair ==
    /\ \E a \in Invocations, b \in Invocations :
          /\ fnOut = [registry |-> Registry, phase |-> "alone",
                      invocations |-> <<a, b>>, alone |-> <<>>]
          /\ fnIn = [running |-> 1, suspended |-> Fresh(b)]
          /\ step = a.step /\ params = a.params /\ env = a.env
    /\ pc = "start"
    /\ mr = IdleMr
    /\ response = NoResponse
    /\ requests = <<>>
    /\ loc = [none |-> TRUE]
    /\ result = NoResult

\* What the script of the running invocation says of its current request.
ScriptChoice == env.script[Len(requests)]

\* The fetch of the running invocation settles as its script says.
ScriptedOk ==
    /\ pc = "http" /\ ScriptChoice # "null"
    /\ FetchOk
    /\ response' = ScriptedPayload(requests[Len(requests)], ScriptChoice)

ScriptedFail ==
    /\ pc = "http" /\ ScriptChoice = "null"
    /\ FetchFail
    /\ mr'.lastError = "network"

ScriptedNull == pc = "http" /\ ScriptChoice = "null" /\ ReturnNull

\* The invocation that ran alone has returned: its result is recorded and
\* the next one runs alone; after the second, both are called again and run
\* interleaved.
AloneReturned ==
    /\ fnOut.phase = "alone" /\ pc = "done"
    /\ IF Len(fnOut.alone) = 0
       THEN /\ fnOut' = [fnOut EXCEPT !.alone = <<result>>]
            /\ Load(Fresh(fnOut.invocations[2]))
            /\ fnIn' = [running |-> 2, suspended |-> Fresh(fnOut.invocations[1])]
       ELSE /\ fnOut' = [fnOut EXCEPT !.alone = Append(@, result),
                                      !.phase = "interleaved"]
            /\ Load(Fresh(fnOut.invocations[1]))
            /\ fnIn' = [running |-> 1, suspended |-> Fresh(fnOut.invocations[2])]

\* The module-level result of an isolate whose handlers kept their result
\* in a variable of the module.
SwitchSharingResult ==
    /\ fnOut.phase = "interleaved"
    /\ Load([fnIn.suspended EXCEPT !.result = result])
    /\ fnIn' = [running |-> 3 - fnIn.running, suspended |-> Running]
    /\ UNCHANGED fnOut

\* The event loop turns to the other invocation: every value of the running
\* one is local to its call and stays with it.
Switch ==
    /\ fnOut.phase = "interleaved"
    /\ Load(fnIn.suspended)
    /\ fnIn' = [running |-> 3 - fnIn.running, suspended |-> Running]
    /\ UNCHANGED fnOut

NextPair ==
    \/ ScriptedOk
    \/ ScriptedFail
    \/ ScriptedNull
    \/ Step1Start
    \/ Step1Resume
    \/ Step2Start
    \/ Step2ResumeTransactions
    \/ Step2ResumeNobleTx
    \/ Step3Start
    \/ Step3Resume
    \/ Step4Start
    \/ Step4ResumeTxList
    \/ Step4ResumeReceipt
    \/ AloneReturned
    \/ Switch

SpecPair == InitPair /\ [][NextPair]_vars

\* ---- extractReceiverFromLogs ----
\* The events a log may carry: packet events whose packet_data names a
\* receiver, is not JSON, or names none; a token-packet event; an event of
\* another type with a packet_data attribute; a packet event that carries a
\* receiver attribute but no packet_data.
ReceiverEvents ==
    {PacketEvent(RecvPacket, ReceiverJson(IcaAddr)),
     PacketEvent(WriteAcknowledgement, ReceiverJson(OtherIca)),
     PacketEvent(RecvPacket, <<"{", "r">>),
     PacketEvent(WriteAcknowledgement, <<"{", "\"", "d", "\"", ":", "\"", "u", "\"", "}">>),
     TokenPacketEvent(<<"n", "2">>),
     PacketEvent("message", ReceiverJson(<<"n", "3">>)),
     [type |-> RecvPacket, attributes |-> <<[key |-> "receiver", value |-> <<"n", "4">>]>>]}

\* A log holds no event, one event, or one event followed by an event that
\* names a receiver.
ReceiverLogs ==
    {[events |-> es] : es \in SeqsUpTo(ReceiverEvents, 1)}
    \cup {[events |-> <<e, f>>] :
            e \in ReceiverEvents,
            f \in {TokenPacketEvent(<<"n", "2">>),
                   PacketEvent(WriteAcknowledgement, ReceiverJson(OtherIca))}}

InitReceiver ==
    /\ step = "extractReceiverFromLogs"
    /\ pc = "start"
    /\ \E logs \in SeqsUpTo(ReceiverLogs, MaxLogs) : fnIn = [logs |-> logs]
    /\ fnOut = <<>>
    /\ IdleHandler

ReceiverApply ==
    /\ step = "extractReceiverFromLogs" /\ pc = "start"
    /\ fnOut' = <<extractReceiverFromLogs(fnIn.logs)>>
    /\ pc' = "done"
    /\ UNCHANGED <<step, fnIn, handlerVars>>

NextReceiver == ReceiverApply

SpecReceiver == InitReceiver /\ [][NextReceiver]_vars

\* ---- makeRequest, called with any retries and retryDelay ----
MaxRetries == 4
RetryDelays == {1, 250}

\* makeRequest(url, options, accept, toJson, retries = 3, retryDelay = 1000)
MakeRequestCall(call) ==
    [StartMr(IF call.retriesGiven THEN call.retries ELSE DefaultRetries)
        EXCEPT !.currentRetryDelay =
                  IF call.retryDelayGiven THEN call.retryDelay ELSE DefaultRetryDelay]

HttpCalls ==
    {[retriesGiven |-> TRUE, retries |-> r, retryDelayGiven |-> TRUE, retryDelay |-> d] :
        r \in 0..MaxRetries, d \in RetryDelays}
    \cup {[retriesGiven |-> rg, retries |-> DefaultRetries,
           retryDelayGiven |-> FALSE, retryDelay |-> DefaultRetryDelay] : rg \in BOOLEAN}

InitHttp ==
    /\ step = "makeRequest"
    /\ pc = "http"
    /\ params \in HttpCalls
    /\ env = [none |-> TRUE]
    /\ mr = MakeRequestCall(params)
    /\ response = NoResponse
    /\ requests = <<[api |-> "noble-by-ibc", target |-> "url", auth |-> FALSE,
                     exhausted |-> FALSE]>>
    /\ loc = [none |-> TRUE]
    /\ result = NoResult
    /\ fnIn = <<>>
    /\ fnOut = <<>>

NextHttp == FetchOk \/ FetchFail \/ ReturnNull

SpecHttp == InitHttp /\ [][NextHttp]_vars

\* Every fetch settles, and the code after the loop runs.
SpecHttpFair == SpecHttp /\ WF_vars(NextHttp)

(***************************************************************************)
(* Claims about the pure helpers.                                          *)
(***************************************************************************)
HexPairValue(c1, c2) == (IndexIn(HexDigits, c1) - 1) * 16 + (IndexIn(HexDigits, c2) - 1)

\* The bytes a "0x"-prefixed lowercase hex text spells, or <<-1>> if it is
\* not such a text.
HexTextBytes(t) ==
    IF /\ Len(t) >= 2 /\ t[1] = "0" /\ t[2] = "x" /\ Len(t) % 2 = 0
       /\ \A i \in 3..Len(t) : IndexIn(HexDigits, t[i]) > 0
    THEN [i \in 1..((Len(t) - 2) \div 2) |-> HexPairValue(t[2 * i + 1], t[2 * i + 2])]
    ELSE <<-1>>

\* C4: decodeMintRecipient is total: a blob that is valid base64 of at least
\* 20 bytes yields "0x" and the 40 lowercase hex characters of its last 20
\* bytes; a blob of fewer than 20 bytes, or one that is not valid base64,
\* yields null (and nothing is thrown: the harness always gets a value).
C4_DecodeTotal ==
    (step = "decodeMintRecipient" /\ pc = "done") =>
        LET out == fnOut[1]
            n == Len(fnIn.bytes)
        IN IF fnIn.kind \in {"padded", "unpadded", "spaced"} /\ n >= 20
           THEN /\ out # NullStr
                /\ Len(out) = 42
                /\ HexTextBytes(out) = SubSeq(fnIn.bytes, n - 19, n)
           ELSE out = NullStr

C4_Witness ==
    /\ step = "decodeMintRecipient" /\ pc = "done"
    /\ fnIn.kind = "padded" /\ Len(fnIn.bytes) > 20
    /\ fnOut[1] # NullStr

\* C6: normalizeAddress is idempotent, and two strings that differ only in
\* letter case or in a leading 0x prefix normalize to the same value.
C6_NormalizeIdempotentCaseInsensitive ==
    /\ (step = "normalizeAddress" /\ pc = "twice") => fnOut[3] = fnOut[1]
    /\ (step = "normalizeAddress" /\ pc \in {"once", "twice"}) => fnOut[1] = fnOut[2]

(***************************************************************************)
(* Claims about Step 3 (trace-cctp-noble-step).                            *)
(***************************************************************************)
Step3Returned == step = "step3" /\ pc = "done"
Step3FoundTrue == Step3Returned /\ result.kind = "success" /\ result.data.found

\* The transactions the handler scanned.
Step3Txs == TransactionsOf(response)

\* The two conditions of a match, as the specification states them: the
\* recipient decodes to an address equal to the target after normalization,
\* and the domain is the one configured for the destination chain.
RecipientDecodes(tx) == extractCctpDataFromLogs(tx.logs).mintRecipient # NullStr
AddressCondition(tx) ==
    /\ RecipientDecodes(tx)
    /\ normalizeAddress(extractCctpDataFromLogs(tx.logs).mintRecipient)
          = normalizeAddress(params.destinationEvmAddress)
DomainCondition(tx) ==
    /\ getChainInfo(canonicalizeChain(params.destChain)) # NoChainInfo
    /\ extractCctpDataFromLogs(tx.logs).destinationDomain
          = getChainInfo(canonicalizeChain(params.destChain)).CCTP_DOMAIN

\* The transactions of the page that carry the hash the result reports.
ReportedTxs == {i \in 1..Len(Step3Txs) : StringOf(Step3Txs[i].txhash) = result.data.txHash}

\* C2: a transaction is returned as the match only if its decoded recipient
\* equals the target address (normalized) and its domain equals the domain
\* of the destination chain; one condition alone never suffices.
C2_MatchNeedsBoth ==
    Step3FoundTrue =>
        \E i \in ReportedTxs : AddressCondition(Step3Txs[i]) /\ DomainCondition(Step3Txs[i])

\* C3: for a page of transactions, the result is found=true with the hash of
\* the earliest matching transaction, and found=false exactly when no
\* transaction of the page matches.
C3_EarliestMatchReported ==
    (/\ Step3Returned
     /\ response # NullResponse /\ response.shape \in {"data.transactions", "transactions"}
     /\ getChainInfo(canonicalizeChain(params.destChain)) # NoChainInfo) =>
        LET hits == {i \in 1..Len(Step3Txs) :
                        AddressCondition(Step3Txs[i]) /\ DomainCondition(Step3Txs[i])}
        IN /\ result.kind = "success"
           /\ result.data.found = (hits # {})
           /\ hits # {} =>
                result.data.txHash
                    = StringOf(Step3Txs[CHOOSE i \in hits : \A j \in hits : i <= j].txhash)

\* C5: a transaction whose mint_recipient cannot be decoded is never
\* reported as the match, whatever non-empty target address was passed.
C5_UndecodableNeverMatches ==
    Step3FoundTrue => \A i \in ReportedTxs : RecipientDecodes(Step3Txs[i])

(***************************************************************************)
(* Claims about Step 1 (trace-axelar-gmp-step).                            *)
(***************************************************************************)
Step1Contracts == getChainInfo(canonicalizeChain(params.destChain)).FACTORY_CONTRACTS

\* C1: the factory contracts are probed one at a time in configured order;
\* probing stops at the first response with a non-empty data array, the
\* result is built from that response, and no request is issued for a
\* contract configured after it.
C1_ProbesInOrderStopsAtFirst ==
    [][step = "step1" =>
        \* the requests issued so far are the first contracts, in order
        /\ Len(requests') <= Len(Step1Contracts)
        /\ \A i \in 1..Len(requests') : requests'[i].target = Step1Contracts[i]
        /\ Len(requests') \in {Len(requests), Len(requests) + 1}
        \* a non-empty response ends the probing and is what the result shows
        /\ (pc = "resume" /\ HasGmpData(response)) =>
              /\ requests' = requests
              /\ pc' = "done"
              /\ result'.kind = "success" =>
                    /\ result'.data.found
                    /\ result'.data.transaction.gmpId
                          \in {response.data[1].call.id, ""}
                    /\ response.data[1].call.id \in {requests[Len(requests)].target, Undefined}
        \* an empty or failed response moves on to the next contract, if any
        /\ (pc = "resume" /\ ~HasGmpData(response)) =>
              IF Len(requests) < Len(Step1Contracts)
              THEN /\ pc' = "http"
                   /\ requests' = Append(requests, GmpRequest(Step1Contracts[Len(requests) + 1]))
              ELSE /\ pc' = "done" /\ requests' = requests
                   /\ result' = Step1NotFound
    ]_vars

\* The second of three contracts answered with data after the first answered
\* with none: two requests were issued and the result shows the second.
C1_Witness ==
    /\ step = "step1" /\ pc = "done"
    /\ Len(Step1Contracts) = 3 /\ Len(requests) = 2
    /\ result.kind = "success" /\ result.data.found
    /\ result.data.transaction.gmpId = Step1Contracts[2]


\* ---- Step 4 ----
\* The handler has returned after asking for the receipt.
Step4AfterReceipt ==
    step = "step4" /\ pc = "done" /\ Len(requests) = 2

ResultHasItem(label) ==
    /\ result.kind = "success"
    /\ \E i \in 1..Len(result.data.items) : result.data.items[i].label = label

\* The Transfer logs of the receipt whose recipient is the destination
\* address and whose data is an integer.
DecodedTransfers ==
    SelectSeq(ReceiptLogs(response),
              LAMBDA log : /\ IsTransferTo(log, params.destinationEvmAddress)
                           /\ ParseBigInt(log.data).ok)

ExpectedAmountEqualsTransfer ==
    /\ params.expectedAmount # <<>>
    /\ ParseBigInt(params.expectedAmount).ok
    /\ DecodedTransfers # <<>>
    /\ ParseBigInt(params.expectedAmount).value = ParseBigInt(DecodedTransfers[1].data).value

\* C7: once Step 4 has selected a transaction and asked for its receipt, the
\* result carries an 'Amount Match' item if and only if expectedAmount was
\* supplied and its integer value equals the amount decoded from the matching
\* Transfer log.
C7_AmountMatchIff ==
    Step4AfterReceipt => (ResultHasItem("Amount Match") <=> ExpectedAmountEqualsTransfer)


\* ---- All four steps ----
Returned == pc = "done"
FoundTrue ==
    /\ Returned /\ step \in {"step1", "step2", "step3", "step4"}
    /\ result.kind = "success" /\ result.data.found

\* The transaction hash (for Step 1 any of the identifiers of the GMP record)
\* a found=true result carries is a value of the provider record.
HashPopulated ==
    CASE step = "step1" ->
            \/ result.data.transaction.destTxHash # Undefined
            \/ result.data.transaction.sourceTxHash # Undefined
            \/ result.data.transaction.gmpId # ""
      [] step = "step2" -> result.data.items[1].value # Undefined
      [] step = "step3" -> result.data.txHash # StringOf(Undefined)
      [] step = "step4" -> result.data.txHash # StringOf(Undefined)

\* C8: in every result of the four step handlers, found=true implies that a
\* transaction hash of the located transaction is populated with a value
\* taken from the provider record.
C8_FoundImpliesHash == FoundTrue => HashPopulated

\* The requests whose response decides found: the GMP searches of Step 1,
\* the account pages of Steps 2 and 3, the transaction list of Step 4.  (The
\* lookup of the Noble transaction and the receipt only add items.)
LookupApis == {"axelar", "mintscan-agoric", "mintscan-noble", "etherscan-txlist"}

LookupExhausted ==
    \E i \in 1..Len(requests) : requests[i].exhausted /\ requests[i].api \in LookupApis

\* C9: when a lookup request of a step has failed on every retry attempt,
\* the step returns a step-level error, never a found=false result.
C9_ExhaustedRetriesAreErrors ==
    (Returned /\ LookupExhausted) => result.kind = "error"

\* The credential the step depends on is absent from the environment.
CredentialAbsent ==
    \/ step \in {"step2", "step3"} /\ ~env.mintscan
    \/ step = "step4" /\ ~env.etherscan

Step4InputsAccepted ==
    /\ params.destChain # <<>> /\ params.destinationEvmAddress # <<>>
    /\ getChainInfo(canonicalizeChain(params.destChain)) # NoChainInfo

\* C10: a step whose credential is absent issues no outbound request and
\* returns an error, the explicit missing-credential error when its inputs
\* are otherwise accepted.
C10_MissingCredentialFailsBeforeAnyCall ==
    CredentialAbsent =>
        /\ requests = <<>>
        /\ Returned => result.kind = "error"
        /\ (Returned /\ step = "step4" /\ Step4InputsAccepted)
              => result.message = "Missing Etherscan API key"


\* ---- Unresolved chain names ----
\* The step takes a chain name, its required parameters are present, and the
\* registry does not resolve the name.
ChainUnresolved ==
    /\ step \in {"step1", "step3", "step4"}
    /\ params.destChain # <<>>
    /\ step = "step1" => params.agoricAddress # ""
    /\ step = "step3" => params.nobleAddress # "" /\ params.destinationEvmAddress # <<>>
    /\ step = "step4" => params.destinationEvmAddress # <<>>
    /\ getChainInfo(canonicalizeChain(params.destChain)) = NoChainInfo

UnsupportedChainMessages ==
    {"Unsupported destination chain", "No factory contracts configured for chain"}

\* C11: for a destChain the registry does not resolve, Steps 1, 3 and 4 issue
\* no outbound request and return a structured unsupported-chain error.
C11_UnresolvedChainFailsBeforeAnyCall ==
    ChainUnresolved =>
        /\ requests = <<>>
        /\ Returned => /\ result.kind = "error"
                       /\ result.message \in UnsupportedChainMessages


\* ---- makeRequest ----
RECURSIVE TimesTwo(_, _)
TimesTwo(d, n) == IF n = 0 THEN d ELSE 2 * TimesTwo(d, n - 1)

\* The delay makeRequest was called with.
CalledRetryDelay == IF params.retryDelayGiven THEN params.retryDelay ELSE DefaultRetryDelay

\* C12: makeRequest makes a bounded number of attempts, 3 when retries is not
\* given; before the attempt after the n-th failure it waits retryDelay * 2^(n-1);
\* a failed attempt has the same effect whatever its cause; and the first
\* successful response is returned without a further attempt.
C12_BoundedRetriesWithBackoff ==
    [][step = "makeRequest" =>
        \* bounded, 3 by default
        /\ mr'.fetches <= mr'.retries
        /\ ~params.retriesGiven => mr'.retries = 3
        \* every wait doubles the one before, starting from retryDelay
        /\ \A i \in 1..Len(mr'.sleeps) : mr'.sleeps[i] = TimesTwo(CalledRetryDelay, i - 1)
        \* a wait lies between two consecutive attempts
        /\ mr'.active /\ mr'.attempt < mr'.retries => Len(mr'.sleeps) = mr'.fetches
        /\ Len(mr'.sleeps) <= mr'.fetches
        \* a failed attempt, whatever its cause, is followed by the next attempt
        /\ (mr'.fetches = mr.fetches + 1 /\ mr'.lastError \in FailureKinds) =>
              /\ mr'.active /\ pc' = "http" /\ response' = response
              /\ mr'.attempt = mr.attempt + 1
              /\ \A kind \in FailureKinds : [mr' EXCEPT !.lastError = kind] =
                    [mr EXCEPT !.fetches = @ + 1, !.attempt = @ + 1, !.lastError = kind,
                               !.sleeps = mr'.sleeps,
                               !.currentRetryDelay = mr'.currentRetryDelay]
        \* the first successful response is returned at once
        /\ (mr'.fetches = mr.fetches + 1 /\ mr'.lastError = "none") =>
              /\ ~mr'.active /\ pc' = "resume"
              /\ response' \in PayloadsFor(requests[1])
        \* nothing is fetched once makeRequest has returned
        /\ ~mr.active => mr'.fetches = mr.fetches
        \* null is returned only after retries failed attempts
        /\ response' = NullResponse => mr'.fetches = mr'.retries
    ]_vars

\* Two attempts failed and the third succeeded: the waits were 250 and 500.
C12_Witness ==
    /\ step = "makeRequest" /\ pc = "resume"
    /\ response # NullResponse
    /\ mr.fetches = 3
    /\ mr.sleeps = <<250, 500>>


\* ---- Step 2 ----
\* The handler resumes with the page of transactions.
Step2HasPage ==
    step = "step2" /\ pc = "resume" /\ loc.phase = "transactions" /\ ~NotIterable(response)

Step2Txs == TransactionsOf(response)

\* The transactions of the page whose extracted receiver is nobleAddress,
\* character for character.
Step2Matches ==
    {i \in 1..Len(Step2Txs) :
        extractReceiverFromLogs(Step2Txs[i].logs) = params.nobleAddress}

Step2FirstMatch == CHOOSE i \in Step2Matches : \A j \in Step2Matches : i <= j

\* The lookup of the Noble transaction for the packet of transaction tx.
Step2LookupFor(tx) ==
    [api |-> "noble-by-ibc",
     target |-> <<PacketMsg(tx.messages).destination_channel,
                  PacketMsg(tx.messages).sequence>>,
     auth |-> FALSE, exhausted |-> FALSE]

\* C13: Step 2 reports the first transaction, in provider order, whose
\* extracted receiver equals nobleAddress exactly; at most one lookup is
\* issued, for that transaction, and none for a later one.
C13_FirstExactReceiverMatch ==
    [][step = "step2" =>
        /\ Step2HasPage /\ Step2Matches # {} =>
              /\ pc' = "done" =>
                    /\ result'.kind = "success" /\ result'.data.found
                    /\ result'.data.items[1].label = "Agoric Tx"
                    /\ result'.data.items[1].value = Step2Txs[Step2FirstMatch].txhash
                    /\ requests' = requests
              /\ pc' = "http" =>
                    /\ loc'.items[1].label = "Agoric Tx"
                    /\ loc'.items[1].value = Step2Txs[Step2FirstMatch].txhash
                    /\ requests' = Append(requests, Step2LookupFor(Step2Txs[Step2FirstMatch]))
        /\ Step2HasPage /\ Step2Matches = {} =>
              /\ pc' = "done" /\ requests' = requests
              /\ result'.kind = "success" /\ ~result'.data.found
        \* after the lookup nothing else is scanned or requested
        /\ pc = "resume" /\ loc.phase = "nobleTx" =>
              /\ pc' = "done" /\ requests' = requests
              /\ result'.data.found
              /\ result'.data.items[1] = loc.items[1]
        /\ Len(requests') <= 2
    ]_vars

\* A page whose first transaction has the receiver in another letter case and
\* whose second has it exactly: the second is reported.
C13_Witness ==
    /\ step = "step2" /\ pc = "done" /\ Len(requests) = 1
    /\ Len(Step2Txs) = 2 /\ Step2Matches = {2}
    /\ toLowerCase(extractReceiverFromLogs(Step2Txs[1].logs)) = toLowerCase(params.nobleAddress)
    /\ result.kind = "success" /\ result.data.found
    /\ result.data.items[1].value = Step2Txs[2].txhash


\* C14: when no transaction of the fetched page has nobleAddress as its
\* extracted receiver, Step 2 returns found=false with no items and the
\* message that names the number of transactions scanned and the Mintscan
\* limit of 20.
C14_NoMatchCitesLimit ==
    [][(Step2HasPage /\ Step2Matches = {}) =>
        /\ pc' = "done"
        /\ result'.kind = "success"
        /\ ~result'.data.found
        /\ result'.data.items = <<>>
        /\ result'.data.message =
              "No relevant IBC acknowledgment transactions found in the last ${transactions.length} transactions (Mintscan limit: 20)"
        /\ result'.data.scanned = Len(Step2Txs)
    ]_vars

\* A full page without a match has been answered with found=false.
C14_Witness ==
    /\ step = "step2" /\ pc = "done"
    /\ Len(Step2Txs) = MaxTxs /\ Step2Matches = {}
    /\ result.kind = "success" /\ ~result.data.found


\* The hashes present in the answer of the Noble lookup, in order; none when
\* the request failed on every attempt.
LookupHashes ==
    IF response = NullResponse THEN <<>>
    ELSE SelectSeq(response.tx_responses, LAMBDA h : h # Undefined)

ItemLabels(items) == {items[i].label : i \in 1..Len(items)}

\* C15: once a transaction has matched, the outcome of the Noble lookup (a
\* request that failed on every attempt, an empty answer, or no lookup at all
\* because channel or sequence is absent) leaves found=true and the items
\* extracted so far as they are; it decides only whether 'Noble Tx' follows.
C15_LookupIsBestEffort ==
    [][step = "step2" =>
        /\ pc = "resume" /\ loc.phase = "nobleTx" =>
              /\ pc' = "done"
              /\ result'.kind = "success" /\ result'.data.found
              /\ result'.data.items =
                    IF LookupHashes = <<>> THEN loc.items
                    ELSE Append(loc.items,
                                [label |-> "Noble Tx", value |-> LookupHashes[1],
                                 href |-> <<"https://www.mintscan.io/noble/txs/",
                                            LookupHashes[1]>>])
        /\ (Step2HasPage /\ Step2Matches # {} /\ pc' = "done") =>
              /\ result'.kind = "success" /\ result'.data.found
              /\ "Noble Tx" \notin ItemLabels(result'.data.items)
              /\ {"Agoric Tx", "Receiver"} \subseteq ItemLabels(result'.data.items)
    ]_vars

\* The lookup failed on every attempt and the result is found=true with the
\* items of the matched transaction.
C15_Witness ==
    /\ step = "step2" /\ pc = "done" /\ Len(requests) = 2
    /\ requests[2].exhausted /\ response = NullResponse
    /\ result.kind = "success" /\ result.data.found
    /\ result.data.items = loc.items
    /\ Len(result.data.items) = 5


\* ---- Step 4: the selected transaction ----
\* The handler resumes with a transaction list it accepts.
Step4HasList ==
    /\ step = "step4" /\ pc = "resume" /\ loc.phase = "txlist"
    /\ response # NullResponse
    /\ ~(response.status = "0" /\ ~response.isArray)

\* The returned transactions whose functionName begins with 'execute'.
ExecuteIndexes ==
    {i \in 1..Len(response.result) :
        /\ Len(response.result[i].functionName) >= 7
        /\ SubSeq(response.result[i].functionName, 1, 7)
              = <<"e", "x", "e", "c", "u", "t", "e">>}

\* C16: Step 4 selects, among the returned transactions whose functionName
\* begins with 'execute', one of greatest timestamp (an absent timestamp
\* counts as 0), asks for its receipt and reports it; it returns found=false
\* exactly when no returned transaction has such a functionName.
C16_LatestExecuteSelected ==
    [][step = "step4" =>
        /\ (Step4HasList /\ ExecuteIndexes # {}) =>
              /\ pc' = "http"
              /\ \E i \in ExecuteIndexes :
                    /\ loc'.evmTx = response.result[i]
                    /\ \A j \in ExecuteIndexes :
                          response.result[j].timeStamp <= response.result[i].timeStamp
                    /\ requests'[Len(requests')].api = "etherscan-receipt"
                    /\ requests'[Len(requests')].target = StringOf(response.result[i].hash)
        /\ (Step4HasList /\ ExecuteIndexes = {}) =>
              /\ pc' = "done" /\ result'.kind = "success" /\ ~result'.data.found
        /\ (pc' = "done" /\ result'.kind = "success") =>
              IF result'.data.found
              THEN /\ loc.phase = "receipt"
                   /\ result'.data.transaction.hash = StringOf(loc.evmTx.hash)
                   /\ result'.data.transaction.timeStamp = loc.evmTx.timeStamp
              ELSE Step4HasList /\ ExecuteIndexes = {}
    ]_vars

\* Several execute transactions were returned and the one selected from
\* them is reported.
C16_Witness ==
    /\ step = "step4" /\ pc = "done"
    /\ result.kind = "success" /\ result.data.found
    /\ loc.executeCount >= 2
    /\ loc.evmTx.timeStamp > 0
    /\ result.data.txHash = loc.evmTx.hash


\* ---- The planner ----
\* completeFlowHandler has returned for a parameter object that carries the
\* four required parameters.
PlanReturned ==
    /\ step = "plan" /\ pc = "done"
    /\ params.agoricAddress # "" /\ params.nobleAddress # ""
    /\ params.destChain # <<>> /\ params.destinationEvmAddress # <<>>

PlanTools == [i \in 1..Len(result.data.recommendedSequence) |->
                 result.data.recommendedSequence[i].tool]

\* C17: the plan has exactly 2 records (the funding-ack lookup, then the
\* Noble swap lookup) when positionName is 'USDN', and for every other
\* positionName, or none, exactly the 4 step tools in their fixed order.
C17_PlanShape ==
    PlanReturned =>
        /\ result.kind = "success"
        /\ IF params.positionName = "USDN"
           THEN PlanTools = <<"trace-agoric-funding-ack-step",
                              "mintscan-get-address-transactions">>
           ELSE /\ PlanTools = <<"trace-axelar-gmp-step", "trace-agoric-funding-ack-step",
                                 "trace-cctp-noble-step", "trace-final-evm-step">>
                /\ \A i \in 1..4 : result.data.recommendedSequence[i].step = i

\* The plan for positionName 'USDN' has been returned.
C17_Witness ==
    /\ PlanReturned /\ params.positionName = "USDN"
    /\ Len(result.data.recommendedSequence) = 2


\* ---- The chain registry ----
\* name is a schema chain name written in some letter case.
IsSchemaName(name) ==
    \E e \in evmChainEnum :
        /\ Len(name) = Len(e)
        /\ \A i \in 1..Len(e) :
              name[i] \in {e[i], UpperLetters[IndexIn(LowerLetters, e[i])]}

HasFullProfile(info) ==
    /\ info # NoChainInfo
    /\ info.CCTP_DOMAIN # <<>> /\ info.CCTP_DOMAIN # NullStr
    /\ Len(info.FACTORY_CONTRACTS) >= 1
    /\ info.EXPLORER_URL # "" /\ info.EXPLORER_URL # Undefined

\* C18: for each schema chain name in any letter case getChainInfo returns a
\* profile with a non-empty DOMAIN, at least one factory contract and a
\* non-empty explorer URL, and for every other name it returns null.
C18_RegistryCoversSchemaOnly ==
    (step = "getChainInfo" /\ pc = "done") =>
        IF IsSchemaName(fnIn.chain)
        THEN HasFullProfile(fnOut[1])
        ELSE fnOut[1] = NoChainInfo

\* The half of C18 about the schema names.
C18_SchemaNamesResolve ==
    (step = "getChainInfo" /\ pc = "done" /\ IsSchemaName(fnIn.chain)) =>
        HasFullProfile(fnOut[1])

\* A name that is no schema name has been resolved to a profile.
C18_Witness ==
    /\ step = "getChainInfo" /\ pc = "done"
    /\ ~IsSchemaName(fnIn.chain)
    /\ fnOut[1] # NoChainInfo


\* ---- extractCctpDataFromLogs ----
ExtractReturned == step = "extractCctpDataFromLogs" /\ pc = "done"

\* Every event of the logs, log after log.
LoggedEvents == FlatEvents(fnIn.logs)
MarkerIndexes == {i \in 1..Len(LoggedEvents) : LoggedEvents[i].type = DepositForBurn}

\* The attributes of the marker events, and the values they hold under key.
MarkerAttributes ==
    UNION {{LoggedEvents[i].attributes[j] : j \in 1..Len(LoggedEvents[i].attributes)} :
           i \in MarkerIndexes}
MarkerValues(key) ==
    {StripQuotes(a.value) :
        a \in {x \in MarkerAttributes : x.key = key /\ x.value # NullStr}}

\* C19: without a circle.cctp.v1.DepositForBurn event both fields are null;
\* with one, each field is null or read from an attribute of a
\* DepositForBurn event, never from an event of another type.
C19_OnlyMarkerEventIsRead ==
    ExtractReturned =>
        IF MarkerIndexes = {}
        THEN fnOut[1] = [mintRecipient |-> NullStr, destinationDomain |-> NullStr]
        ELSE /\ fnOut[1].destinationDomain
                    \in {NullStr} \cup MarkerValues("destination_domain")
             /\ fnOut[1].mintRecipient
                    \in {NullStr} \cup {decodeMintRecipient(v) :
                                            v \in MarkerValues("mint_recipient")}

\* An event of another type that carries both keys precedes the marker
\* event, and the fields returned are the marker event's.
C19_Witness ==
    /\ ExtractReturned
    /\ MarkerIndexes # {}
    /\ \E i \in 1..Len(LoggedEvents) :
          /\ LoggedEvents[i].type # DepositForBurn
          /\ \A m \in MarkerIndexes : i < m
    /\ fnOut[1].mintRecipient = TargetAddr
    /\ fnOut[1].destinationDomain = <<"1">>


\* ---- Every invocation returns an envelope ----
\* The value returned was built by ResponseFormatter.
IsEnvelope(r) == r.kind \in {"error", "success"}

\* C20: every invocation of a step handler or of the planner terminates,
\* and what it returns is an envelope built by ResponseFormatter, whatever
\* the parameters and whatever the providers answer.
C20_AlwaysReturnsEnvelope ==
    /\ [](pc = "done" => IsEnvelope(result))
    /\ <>(pc = "done")

\* A handler has returned an error envelope after a request failed on every
\* attempt, or a success envelope after a malformed payload.
C20_Witness ==
    /\ pc = "done" /\ IsEnvelope(result)
    /\ \E i \in 1..Len(requests) : requests[i].exhausted
    /\ result.kind = "error"


ChecksPassed ==
    /\ step \in {"step1", "step2", "step3", "step4"}
    /\ ~CredentialAbsent
    /\ CASE step = "step1" ->
               /\ params.destChain # <<>> /\ params.agoricAddress # ""
               /\ getChainInfo(canonicalizeChain(params.destChain)) # NoChainInfo
         [] step = "step2" -> params.agoricAddress # "" /\ params.nobleAddress # <<>>
         [] step = "step3" ->
               /\ params.nobleAddress # "" /\ params.destChain # <<>>
               /\ params.destinationEvmAddress # <<>>
               /\ getChainInfo(canonicalizeChain(params.destChain)) # NoChainInfo
         [] step = "step4" -> Step4InputsAccepted

\* C22: a request is issued only when none is in flight and the previous one
\* has completed, one at a time, and an invocation that passes the parameter,
\* chain and credential checks has issued between 1 and 3 logical requests
\* (retries not counted) when it returns.
C22_RequestsAreSequential ==
    [][
        /\ Len(requests') > Len(requests) =>
              /\ Len(requests') = Len(requests) + 1
              /\ ~mr.active /\ pc \in {"start", "resume"}
              /\ mr'.active /\ pc' = "http"
              /\ Len(requests) > 0 => response # NoResponse
        /\ (pc' = "done" /\ ChecksPassed) => Len(requests') \in 1..3
    ]_vars

\* Step 1 has returned after probing three factory contracts one after the
\* other.
C22_Witness ==
    /\ step = "step1" /\ pc = "done" /\ ChecksPassed
    /\ Len(requests) = 3


\* ---- The destination hash of Step 1 is optional ----
\* Step 1 has returned and the contract probed last answered with records.
Step1ReturnedWithRecords ==
    step = "step1" /\ pc = "done" /\ response # NoResponse /\ HasGmpData(response)

\* The timestamp Step 1 renders: first.call.timestamp || first.timestamp.
Step1Timestamp ==
    IF response.data[1].call.timestamp # TimeAbsent
    THEN response.data[1].call.timestamp
    ELSE response.data[1].timestamp

Step1HashOptional ==
    /\ result.kind = "success" /\ result.data.found
    /\ response.data[1].approved.transactionHash = Undefined =>
          /\ "Destination Tx" \notin ItemLabels(result.data.items)
          /\ result.data.transaction.explorerUrl = <<>>
          /\ result.data.transaction.destTxHash = Undefined

\* C23: Step 1 returns found=true whenever a probed contract yields a
\* non-empty record list, also when the first record has no approved
\* transaction hash; the 'Destination Tx' item and the explorerUrl are then
\* omitted.
C23_FoundWithoutDestinationHash ==
    Step1ReturnedWithRecords => Step1HashOptional

\* The same, for first records whose timestamp is absent or renders.
C23_FoundWhenTimestampRenders ==
    (Step1ReturnedWithRecords /\ Step1Timestamp # TimeInvalid) => Step1HashOptional


\* ---- extractReceiverFromLogs ----
ReceiverReturned == step = "extractReceiverFromLogs" /\ pc = "done"

\* The value of the first attribute of the event under key, or null.
EventAttribute(event, key) ==
    IF \E i \in 1..Len(event.attributes) : event.attributes[i].key = key
    THEN event.attributes[CHOOSE i \in 1..Len(event.attributes) :
                             /\ event.attributes[i].key = key
                             /\ \A j \in 1..(i - 1) : event.attributes[j].key # key].value
    ELSE NullStr

\* The receiver the event names, or null: a packet event names the receiver
\* member of its packet_data when that is JSON, a token-packet event the one
\* of its receiver attribute.
NamedReceiver(event) ==
    CASE event.type \in {"recv_packet", "write_acknowledgement"} ->
            LET data == EventAttribute(event, "packet_data")
            IN IF data # NullStr /\ JSONParse(data).ok
               THEN ReceiverOf(JSONParse(data))
               ELSE NullStr
      [] event.type = "fungible_token_packet" -> EventAttribute(event, "receiver")
      [] OTHER -> NullStr

ReceiverIndexes ==
    {i \in 1..Len(FlatEvents(fnIn.logs)) :
        NamedReceiver(FlatEvents(fnIn.logs)[i]) \notin {NullStr, <<>>}}

\* C24: extractReceiverFromLogs returns the receiver named by the first
\* event, in log order, that names one (a recv_packet or
\* write_acknowledgement event through the JSON of its packet_data, a
\* fungible_token_packet event through its receiver attribute); packet_data
\* that is not JSON is passed over, and null is returned when no event names
\* a receiver.
C24_FirstNamedReceiver ==
    ReceiverReturned =>
        IF ReceiverIndexes = {}
        THEN fnOut[1] = NullStr
        ELSE fnOut[1] =
                NamedReceiver(FlatEvents(fnIn.logs)[
                    CHOOSE i \in ReceiverIndexes : \A j \in ReceiverIndexes : i <= j])

\* A packet event whose packet_data is not JSON comes first, two events that
\* name different receivers follow, and the first of them is returned.
C24_Witness ==
    /\ ReceiverReturned
    /\ Len(FlatEvents(fnIn.logs)) >= 3
    /\ FlatEvents(fnIn.logs)[1] = PacketEvent(RecvPacket, <<"{", "r">>)
    /\ ReceiverIndexes = {2, 3}
    /\ NamedReceiver(FlatEvents(fnIn.logs)[2]) # NamedReceiver(FlatEvents(fnIn.logs)[3])
    /\ fnOut[1] = NamedReceiver(FlatEvents(fnIn.logs)[2])

\* ---- Step 4: the receipt scan ----
Step4ReturnedReceipt == Step4AfterReceipt /\ result.kind = "success"

TokenTransferLabel == "Token Transfer (base units)"

\* The values of the 'Token Transfer (base units)' items of the result.
TokenTransferValues ==
    {result.data.items[i].value :
        i \in {j \in 1..Len(result.data.items) :
                  result.data.items[j].label = TokenTransferLabel}}

\* The logs of the receipt, in log order, with the Transfer signature and
\* the destination address as recipient.
TransfersToTarget ==
    SelectSeq(ReceiptLogs(response),
              LAMBDA log : IsTransferTo(log, params.destinationEvmAddress))

\* C25: the token transfer amount of Step 4 is taken from the first receipt
\* log, in log order, whose first topic is the ERC-20 Transfer signature and
\* whose recipient topic equals destinationEvmAddress without regard to
\* case, with its data parsed as an integer; logs with another signature or
\* another recipient never contribute an amount.
C25_AmountFromFirstTransferToTarget ==
    Step4ReturnedReceipt =>
        IF DecodedTransfers = <<>>
        THEN /\ result.data.tokenTransferAmount = NullStr
             /\ TokenTransferValues = {}
        ELSE /\ result.data.tokenTransferAmount = DecodedTransfers[1].data
             /\ TokenTransferValues = {ParseBigInt(DecodedTransfers[1].data).value}

\* The same for the item alone, and for the field when every Transfer log
\* to the destination address carries an integer.
C25_ItemFromFirstDecodedTransfer ==
    Step4ReturnedReceipt =>
        /\ TokenTransferValues =
              IF DecodedTransfers = <<>> THEN {}
              ELSE {ParseBigInt(DecodedTransfers[1].data).value}
        /\ TransfersToTarget = DecodedTransfers =>
              result.data.tokenTransferAmount =
                 IF DecodedTransfers = <<>> THEN NullStr ELSE DecodedTransfers[1].data

\* ---- Step 3: the burn ----
\* The transactions of the page the loop identifies as a match, when the
\* page was read and the destination chain resolved.
Step3Hits ==
    IF /\ response # NullResponse
       /\ response.shape \in {"data.transactions", "transactions"}
       /\ getChainInfo(canonicalizeChain(params.destChain)) # NoChainInfo
    THEN {i \in 1..Len(Step3Txs) :
             Step3Match(Step3Txs[i],
                        getChainInfo(canonicalizeChain(params.destChain)).CCTP_DOMAIN,
                        params.destinationEvmAddress)}
    ELSE {}

Step3MatchedTx == Step3Txs[CHOOSE i \in Step3Hits : \A j \in Step3Hits : i <= j]

\* The messages of the matched transaction of type MsgBurn with an amount.
BurnIndexes ==
    {i \in 1..Len(Step3MatchedTx.messages) :
        /\ Step3MatchedTx.messages[i].type = MsgBurn
        /\ Step3MatchedTx.messages[i].amount # NoAmount}

FirstBurn ==
    Step3MatchedTx.messages[CHOOSE i \in BurnIndexes : \A j \in BurnIndexes : i <= j].amount

BurnReported ==
    IF BurnIndexes = {}
    THEN /\ result.data.burnAmount = Null
         /\ result.data.burnDenom = Null
         /\ ~ResultHasItem("Amount")
    ELSE /\ result.data.burnAmount = FirstBurn.amount
         /\ result.data.burnDenom = FirstBurn.denom

\* C26: on a match Step 3 returns found=true with burnAmount and burnDenom
\* taken from the first message of the matched transaction whose type is
\* /circle.fiattokenfactory.v1.MsgBurn and which carries an amount; when the
\* transaction has no such message it still returns found=true, with both
\* null and without an 'Amount' item.
C26_BurnFromFirstMsgBurn ==
    (Step3Returned /\ Step3Hits # {}) =>
        /\ result.kind = "success"
        /\ result.data.found
        /\ BurnReported

\* The same for the results that report a match.
C26_BurnReportedWhenFound == Step3FoundTrue => BurnReported

\* ---- All four steps: found, items and message ----
StepSucceeded ==
    /\ Returned /\ step \in {"step1", "step2", "step3", "step4"}
    /\ result.kind = "success"

\* The message member of the result, undefined when the result has none.
MessageOf(data) == IF "message" \in DOMAIN data THEN data.message ELSE Undefined

\* C27: in every result of the four step handlers found=false comes with an
\* empty items list and an explanatory message, and found=true comes
\* without a message.
C27_FoundAgreesWithItemsAndMessage ==
    StepSucceeded =>
        IF result.data.found
        THEN MessageOf(result.data) = Undefined
        ELSE /\ result.data.items = <<>>
             /\ MessageOf(result.data) \notin {Undefined, ""}

\* Step 4 read a transaction list without an execute transaction.
C27_Witness ==
    /\ StepSucceeded /\ step = "step4"
    /\ Len(requests) = 1 /\ response # NullResponse
    /\ ~result.data.found
    /\ result.data.items = <<>>
    /\ result.data.message = "No execute* transactions found"

\* ---- makeRequest: attempts, waits and termination ----
MakeRequestReturned == step = "makeRequest" /\ pc = "resume"

\* The retries makeRequest was called with.
CalledRetries == IF params.retriesGiven THEN params.retries ELSE DefaultRetries

\* C28: makeRequest calls fetch at most `retries` times (3 by default: the
\* first attempt and two retries); it sleeps only between two attempts and
\* never after the last one; it returns once every fetch has settled; and
\* when every attempt has failed it returns null.
C28_AttemptsBoundedAndReturns ==
    /\ [](step = "makeRequest" =>
            /\ mr.retries = CalledRetries
            /\ ~params.retriesGiven => mr.retries = 3
            /\ mr.fetches <= mr.retries
            \* a sleep that was taken is followed by an attempt
            /\ (mr.active /\ mr.attempt < mr.retries) => Len(mr.sleeps) = mr.fetches
            \* after the last attempt, failed or not, there was no sleep
            /\ (mr.fetches > 0 /\ (~mr.active \/ mr.attempt >= mr.retries)) =>
                  Len(mr.sleeps) = mr.fetches - 1
            /\ mr.fetches = 0 => mr.sleeps = <<>>
            \* a return after `retries` failures is the return of null
            /\ (MakeRequestReturned /\ requests[1].exhausted) =>
                  /\ response = NullResponse
                  /\ mr.fetches = mr.retries)
    /\ <>MakeRequestReturned
    /\ (step = "makeRequest" /\ mr.active /\ mr.attempt >= mr.retries)
          ~> (MakeRequestReturned /\ response = NullResponse)

\* Three attempts of a default call failed: two sleeps, and null.
C28_Witness ==
    /\ MakeRequestReturned
    /\ ~params.retriesGiven
    /\ response = NullResponse
    /\ mr.fetches = 3
    /\ mr.sleeps = <<1000, 2000>>

\* ---- Steps 3 and 4: a match is reported ----
\* C29: a transaction the scan of Step 3 identifies as the match, or Step 4
\* selects as the most recent execute transaction, always yields a
\* found=true result; fields that do not identify it (its timestamp) never
\* turn the match into a step-level error.
C29_MatchAlwaysReported ==
    /\ (Step3Returned /\ Step3Hits # {}) =>
          (result.kind = "success" /\ result.data.found)
    /\ Step4AfterReceipt =>
          (result.kind = "success" /\ result.data.found)

\* The same for the transactions whose timestamp renders.
C29_MatchReportedWhenTimestampRenders ==
    /\ (Step3Returned /\ Step3Hits # {} /\ ~DateThrows(Step3MatchedTx.timestamp)) =>
          (result.kind = "success" /\ result.data.found)
    /\ (Step4AfterReceipt /\ ~DateThrows(loc.evmTx.timeStamp)) =>
          (result.kind = "success" /\ result.data.found)

\* ---- Step 4: tokenTransferAmount and its item ----
\* C30: in the result of Step 4 tokenTransferAmount is non-null only if a
\* 'Token Transfer (base units)' item with the decoded amount is present; a
\* Transfer log to the destination address whose data is not an integer
\* contributes neither.
C30_AmountFieldImpliesItem ==
    Step4ReturnedReceipt =>
        (result.data.tokenTransferAmount # NullStr =>
            /\ ParseBigInt(result.data.tokenTransferAmount).ok
            /\ TokenTransferValues = {ParseBigInt(result.data.tokenTransferAmount).value})

\* The converse: an item comes with the field it was decoded from.
C30_ItemImpliesAmountField ==
    Step4ReturnedReceipt =>
        (TokenTransferValues # {} =>
            /\ result.data.tokenTransferAmount # NullStr
            /\ ParseBigInt(result.data.tokenTransferAmount).ok
            /\ TokenTransferValues = {ParseBigInt(result.data.tokenTransferAmount).value})

=============================================================================
